---- MODULE Spec2Model ----
(***************************************************************************)
(* A model of the DSLite query layer (src/unnamed/part_001): identifier    *)
(* validation, field quoting, the clause compiler, the statement builders  *)
(* and the transaction wrappers, over a small relational backend.          *)
(*                                                                         *)
(* Text is a sequence of one-character strings.  SQL text is a sequence of *)
(* tokens [s, src]: s is the piece of text and src records which           *)
(* expression of the source produced it ("code" for template text,         *)
(* "ident" for an interpolated identifier character, "path" for a JSON     *)
(* path character, "op" for a join operator, "def" for a column            *)
(* definition, "value" for a request value).                               *)
(***************************************************************************)
EXTENDS Integers, Sequences, FiniteSets, TLC

VARIABLES
    db,         \* the backend: tables, indexes, inTransaction and the state
                \* a ROLLBACK restores
    frames,     \* the transaction() calls whose callback has not finished
    call,       \* the last call made on the instance, with its arguments
    result,     \* what it returned or threw ([kind |-> "pending"] before)
    executed,   \* the statements the last call handed to the backend
    pre,        \* the backend as it was when the last call was made
    alt         \* the statement built for a second request that differs
                \* from the last one in its values only

vars == <<db, frames, call, result, executed, pre, alt>>

----------------------------------------------------------------------------
(* Bounds *)

MaxIdLen == 3
MaxClauses == 2
MaxDepth == 2
MaxRows == 2
MaxOps == 3
MaxStored == 3
MaxPage == 2
MaxFieldLen == 5

----------------------------------------------------------------------------
(* Text helpers *)

Lower == {"a","b","c","d","e","f","g","h","i","j","k","l","m",
          "n","o","p","q","r","s","t","u","v","w","x","y","z"}
Upper == {"A","B","C","D","E","F","G","H","I","J","K","L","M",
          "N","O","P","Q","R","S","T","U","V","W","X","Y","Z"}
Digits == {"0","1","2","3","4","5","6","7","8","9"}
LowerSeq == <<"a","b","c","d","e","f","g","h","i","j","k","l","m",
              "n","o","p","q","r","s","t","u","v","w","x","y","z">>
UpperSeq == <<"A","B","C","D","E","F","G","H","I","J","K","L","M",
              "N","O","P","Q","R","S","T","U","V","W","X","Y","Z">>

\* String.prototype.toUpperCase.
UpperChar(c) == IF c \in Lower THEN UpperSeq[CHOOSE i \in 1..26 : LowerSeq[i] = c] ELSE c
toUpperCase(s) == [i \in DOMAIN s |-> UpperChar(s[i])]

\* All texts over alphabet A of length at most n.
TextsUpTo(A, n) == UNION {[1..k -> A] : k \in 0..n}

\* An error object: its class (kind), what it is about, and for query errors
\* the SQL text it carries.
NoError == [kind |-> "none", context |-> "", identifier |-> <<>>, sql |-> <<>>]

\* new DSLiteValidationError(`Invalid characters detected in ${context}: ${identifier}`)
ValidationError(context, identifier) ==
    [kind |-> "validation", context |-> context, identifier |-> identifier, sql |-> <<>>]

\* new DSLiteValidationError(message) for a missing argument or sub-structure.
Invalid(message) == [kind |-> "validation", context |-> message, identifier |-> <<>>, sql |-> <<>>]

\* new DSLiteQueryError(message, { cause, sql })
QueryError(message, sql) == [kind |-> "query", context |-> message, identifier |-> <<>>, sql |-> sql]

----------------------------------------------------------------------------
(* Identifier validation *)

\* The character class [a-zA-Z0-9_] of SAFE_IDENTIFIER_REGEX.
SafeClass(c) == c \in Lower \cup Upper \cup Digits \cup {"_"}

\* Greedy match of [a-zA-Z0-9_]* from position i: the first position the
\* class does not match (Len(s) + 1 when it matches to the end).
RECURSIVE ClassRunEnd(_, _)
ClassRunEnd(s, i) ==
    IF i <= Len(s) /\ SafeClass(s[i]) THEN ClassRunEnd(s, i + 1) ELSE i

\* /^[a-zA-Z0-9_]+$/.test(s): anchored at both ends, at least one character.
SAFE_IDENTIFIER_REGEX_accept_empty(s) == ClassRunEnd(s, 1) = Len(s) + 1
SAFE_IDENTIFIER_REGEX(s) == ClassRunEnd(s, 1) > 1 /\ ClassRunEnd(s, 1) = Len(s) + 1

\* Returns NoError when the identifier is accepted, the thrown error otherwise.
_validateIdentifier(identifier, context) ==
    IF ~SAFE_IDENTIFIER_REGEX(identifier)
    THEN ValidationError(context, identifier)
    ELSE NoError

----------------------------------------------------------------------------
(* SQL text and values *)

\* Template text written in the source: one token per lexical piece.
K(pieces) == [i \in DOMAIN pieces |-> [s |-> pieces[i], src |-> "code"]]

\* Text interpolated from the request, character by character.
Interp(text, src) == [i \in DOMAIN text |-> [s |-> text[i], src |-> src]]

\* The characters of a piece of SQL text, without their origin.
Text(sql) == [i \in DOMAIN sql |-> sql[i].s]

\* SqlValue: a number, a string or null.
Num(n) == [k |-> "num", n |-> n, s |-> <<>>]
Str(s) == [k |-> "str", n |-> 0, s |-> s]
Null == [k |-> "null", n |-> 0, s |-> <<>>]

DigitOf == <<"1", "2", "3", "4", "5", "6", "7", "8", "9">>

\* String(v) for the values of the model (single-digit numbers).
String(v) ==
    CASE v.k = "str" -> v.s
      [] v.k = "null" -> <<"n", "u", "l", "l">>
      [] v.k = "num" -> IF v.n = 0 THEN <<"0">> ELSE <<DigitOf[v.n]>>

RECURSIVE Flatten(_)
Flatten(seqs) == IF seqs = <<>> THEN <<>> ELSE Head(seqs) \o Flatten(Tail(seqs))

\* Array.prototype.join on pieces of SQL text.
RECURSIVE JoinSql(_, _)
JoinSql(parts, sep) ==
    IF parts = <<>> THEN <<>>
    ELSE IF Len(parts) = 1 THEN parts[1]
    ELSE parts[1] \o sep \o JoinSql(Tail(parts), sep)

\* String.prototype.split on a one-character separator.
RECURSIVE Split(_, _)
Split(s, c) ==
    IF \E i \in 1..Len(s) : s[i] = c
    THEN LET i == CHOOSE k \in 1..Len(s) : s[k] = c /\ \A j \in 1..(k - 1) : s[j] # c
         IN <<SubSeq(s, 1, i - 1)>> \o Split(SubSeq(s, i + 1, Len(s)), c)
    ELSE <<s>>

Whitespace == {" ", "\t", "\n", "\r"}

\* String.prototype.trim.
RECURSIVE TrimLeft(_)
TrimLeft(s) == IF s # <<>> /\ Head(s) \in Whitespace THEN TrimLeft(Tail(s)) ELSE s
RECURSIVE TrimRight(_)
TrimRight(s) ==
    IF s # <<>> /\ s[Len(s)] \in Whitespace THEN TrimRight(SubSeq(s, 1, Len(s) - 1)) ELSE s
trim(s) == TrimRight(TrimLeft(s))

\* SqlResult, or the error thrown instead of it.
Res(sql, params) == [err |-> NoError, sql |-> sql, params |-> params]
Throw(e) == [err |-> e, sql |-> <<>>, params |-> <<>>]
Ok(r) == r.err.kind = "none"

\* The first error thrown while mapping over an array, NoError if none.
FirstError(parts) ==
    IF \E i \in DOMAIN parts : ~Ok(parts[i])
    THEN parts[CHOOSE i \in DOMAIN parts :
                  ~Ok(parts[i]) /\ \A j \in 1..(i - 1) : Ok(parts[j])].err
    ELSE NoError

----------------------------------------------------------------------------
(* Field reference lowering *)

\* The back-quote character (TLA+ strings cannot contain it).
BQ == "[bq]"

\* part between back-quotes.
BackQuoted(part) == K(<<BQ>>) \o Interp(part, "ident") \o K(<<BQ>>)

\* parts.map(part => { validate(part); return quoted }).join('.'), or the
\* first validation error.
QuoteParts_unvalidated(parts, context) ==
    Res(JoinSql([i \in DOMAIN parts |-> BackQuoted(parts[i])], K(<<".">>)), <<>>)
QuoteParts(parts, context) ==
    LET Quoted(part, e) == IF e.kind = "none" THEN Res(BackQuoted(part), <<>>) ELSE Throw(e)
        Joined(checked) ==
            IF FirstError(checked).kind # "none" THEN Throw(FirstError(checked))
            ELSE Res(JoinSql([i \in DOMAIN checked |-> checked[i].sql], K(<<".">>)), <<>>)
    IN Joined([i \in DOMAIN parts |-> Quoted(parts[i], _validateIdentifier(parts[i], context))])

\* Positions where the accessor "->" starts.
ArrowAt(s, i) == i + 1 <= Len(s) /\ s[i] = "-" /\ s[i + 1] = ">"
HasArrow(s) == \E i \in 1..Len(s) : ArrowAt(s, i)
FirstArrow(s) == CHOOSE i \in 1..Len(s) : ArrowAt(s, i) /\ \A j \in 1..(i - 1) : ~ArrowAt(s, j)

_quoteField(fieldStr) ==
    IF fieldStr = <<"*">> THEN Res(K(<<"*">>), <<>>)
    ELSE IF HasArrow(fieldStr)
    THEN \* /^(.*?)(->>|->)(.*)$/
         LET Long(i) == i + 2 <= Len(fieldStr) /\ fieldStr[i + 2] = ">"
             Accessor(quotedColumn, operator, path) ==
                 IF ~Ok(quotedColumn) THEN quotedColumn
                 ELSE Res(quotedColumn.sql \o K(<<" ", operator, " ", "'", "$", ".">>)
                             \o Interp(path, "path") \o K(<<"'">>), <<>>)
             Match(i) ==
                 Accessor(QuoteParts(Split(trim(SubSeq(fieldStr, 1, i - 1)), "."),
                                     "JSON column name"),
                          IF Long(i) THEN "->>" ELSE "->",
                          trim(SubSeq(fieldStr, IF Long(i) THEN i + 3 ELSE i + 2, Len(fieldStr))))
         IN Match(FirstArrow(fieldStr))
    ELSE QuoteParts(Split(fieldStr, "."), "field name")

----------------------------------------------------------------------------
(* Clause compiler *)

\* A clause object: keys in the object's own order, body[key] the payload.
Tags == {"bool", "match", "match_phrase", "multi_match", "exists", "term", "terms", "range"}

TRUE_SQL == K(<<"1", "=", "1">>)
FALSE_SQL == K(<<"1", "=", "0">>)

Placeholder == K(<<"?">>)

\* String(query).split(' ').filter(t => t.length > 0)
Tokens(query) == SelectSeq(Split(String(query), " "), LAMBDA t : Len(t) > 0)

Like(t) == Str(<<"%">> \o t \o <<"%">>)

\* terms.map(() => `${quotedField} LIKE ?`) joined with ' AND ', in parentheses.
LikeBlock(quotedField, terms) ==
    K(<<"(">>)
    \o JoinSql([i \in DOMAIN terms |-> quotedField \o K(<<" ", "LIKE", " ">>) \o Placeholder],
               K(<<" ", "AND", " ">>))
    \o K(<<")">>)

_parseMatch(matchObj) ==
    LET Lowered(quotedField, terms) ==
            IF ~Ok(quotedField) THEN quotedField
            ELSE IF Len(terms) = 0 THEN Res(TRUE_SQL, <<>>)
            ELSE Res(LikeBlock(quotedField.sql, terms), [i \in DOMAIN terms |-> Like(terms[i])])
    IN Lowered(_quoteField(matchObj.field), Tokens(matchObj.query))

_parseMatchPhrase(matchObj) ==
    LET Lowered(quotedField) ==
            IF ~Ok(quotedField) THEN quotedField
            ELSE Res(quotedField.sql \o K(<<" ", "LIKE", " ">>) \o Placeholder,
                     <<Like(String(matchObj.query))>>)
    IN Lowered(_quoteField(matchObj.field))

_parseMultiMatch_every_field(matchObj) ==
    LET Lowered(query, fields, terms, quoted) ==
            IF query = <<>> \/ Len(fields) = 0 THEN Res(FALSE_SQL, <<>>)
            ELSE IF Len(terms) = 0 THEN Res(TRUE_SQL, <<>>)
            ELSE IF FirstError(quoted).kind # "none" THEN Throw(FirstError(quoted))
            ELSE Res(K(<<"(">>)
                       \o JoinSql([i \in DOMAIN fields |-> LikeBlock(quoted[i].sql, terms)],
                                  K(<<" ", "AND", " ">>))
                       \o K(<<")">>),
                     Flatten([i \in DOMAIN fields |-> [j \in DOMAIN terms |-> Like(terms[j])]]))
    IN Lowered(String(matchObj.query), matchObj.fields, Tokens(matchObj.query),
               [i \in DOMAIN matchObj.fields |-> _quoteField(matchObj.fields[i])])
_parseMultiMatch(matchObj) ==
    LET Lowered(query, fields, terms, quoted) ==
            IF query = <<>> \/ Len(fields) = 0 THEN Res(FALSE_SQL, <<>>)
            ELSE IF Len(terms) = 0 THEN Res(TRUE_SQL, <<>>)
            ELSE IF FirstError(quoted).kind # "none" THEN Throw(FirstError(quoted))
            ELSE Res(K(<<"(">>)
                       \o JoinSql([i \in DOMAIN fields |-> LikeBlock(quoted[i].sql, terms)],
                                  K(<<" ", "OR", " ">>))
                       \o K(<<")">>),
                     Flatten([i \in DOMAIN fields |-> [j \in DOMAIN terms |-> Like(terms[j])]]))
    IN Lowered(String(matchObj.query), matchObj.fields, Tokens(matchObj.query),
               [i \in DOMAIN matchObj.fields |-> _quoteField(matchObj.fields[i])])

\* existsObj.field is a text; the empty text stands for a missing field too.
_parseExists(existsObj) ==
    LET Lowered(quotedField) ==
            IF existsObj.field = <<>> THEN Res(FALSE_SQL, <<>>)
            ELSE IF ~Ok(quotedField) THEN quotedField
            ELSE Res(quotedField.sql \o K(<<" ", "IS", " ", "NOT", " ", "NULL">>), <<>>)
    IN Lowered(_quoteField(existsObj.field))

_parseTerm_inline(termObj) ==
    LET Lowered(quotedField) ==
            IF ~Ok(quotedField) THEN quotedField
            ELSE Res(quotedField.sql \o K(<<" ", "=", " ", "'">>)
                        \o Interp(String(termObj.value), "value") \o K(<<"'">>), <<>>)
    IN Lowered(_quoteField(termObj.field))
_parseTerm(termObj) ==
    LET Lowered(quotedField) ==
            IF ~Ok(quotedField) THEN quotedField
            ELSE Res(quotedField.sql \o K(<<" ", "=", " ">>) \o Placeholder, <<termObj.value>>)
    IN Lowered(_quoteField(termObj.field))

_parseTerms_no_empty_case(termsObj) ==
    LET Lowered(quotedField, values) ==
            IF ~Ok(quotedField) THEN quotedField
            ELSE Res(quotedField.sql \o K(<<" ", "IN", " ", "(">>)
                        \o JoinSql([i \in DOMAIN values |-> Placeholder], K(<<",">>))
                        \o K(<<")">>), values)
    IN Lowered(_quoteField(termsObj.field), termsObj.values)
_parseTerms(termsObj) ==
    LET Lowered(quotedField, values) ==
            IF Len(values) = 0 THEN Res(FALSE_SQL, <<>>)
            ELSE IF ~Ok(quotedField) THEN quotedField
            ELSE Res(quotedField.sql \o K(<<" ", "IN", " ", "(">>)
                        \o JoinSql([i \in DOMAIN values |-> Placeholder], K(<<",">>))
                        \o K(<<")">>), values)
    IN Lowered(_quoteField(termsObj.field), termsObj.values)

\* opMap[op]: the four own keys, and the keys every object inherits from
\* Object.prototype, whose values are functions (truthy).
ObjectPrototypeKeys == {"constructor", "toString", "valueOf", "hasOwnProperty",
                        "isPrototypeOf", "propertyIsEnumerable", "toLocaleString"}
opMap(op) ==
    CASE op = "gt" -> <<">">>
      [] op = "gte" -> <<">=">>
      [] op = "lt" -> <<"<">>
      [] op = "lte" -> <<"<=">>
      [] op \in ObjectPrototypeKeys -> <<"function ", op, "() { [native code] }">>
      [] OTHER -> <<>>

\* rangeObj.ops: the entries [op, value] of the operator mapping, in order.
_parseRange(rangeObj) ==
    LET Lowered(ops, quotedField) ==
            IF Len(ops) = 0 THEN Res(TRUE_SQL, <<>>)
            ELSE IF ~Ok(quotedField) THEN quotedField
            ELSE Res(K(<<"(">>)
                       \o JoinSql([i \in DOMAIN ops |->
                                     quotedField.sql \o K(<<" ">>) \o K(opMap(ops[i].op))
                                         \o K(<<" ">>) \o Placeholder],
                                  K(<<" ", "AND", " ">>))
                       \o K(<<")">>),
                     [i \in DOMAIN ops |-> ops[i].value])
    IN Lowered(SelectSeq(rangeObj.ops, LAMBDA e : opMap(e.op) # <<>>),
               _quoteField(rangeObj.field))

RECURSIVE _parseQuery(_)

\* The inner function of _parseBool; the source's null is [null |-> TRUE].
Group(parts, joiner) ==
    IF Len(parts) = 0
    THEN [null |-> TRUE, err |-> NoError, sql |-> <<>>, params |-> <<>>]
    ELSE IF FirstError(parts).kind # "none"
    THEN [null |-> FALSE, err |-> FirstError(parts), sql |-> <<>>, params |-> <<>>]
    ELSE [null |-> FALSE, err |-> NoError,
          sql |-> K(<<"(">>)
                    \o JoinSql([i \in DOMAIN parts |-> parts[i].sql], K(<<" ", joiner, " ">>))
                    \o K(<<")">>),
          params |-> Flatten([i \in DOMAIN parts |-> parts[i].params])]
processClauses_always_and(clauseArray, joiner) ==
    Group([i \in DOMAIN clauseArray |-> _parseQuery(clauseArray[i])], "AND")
processClauses(clauseArray, joiner) ==
    Group([i \in DOMAIN clauseArray |-> _parseQuery(clauseArray[i])], joiner)

\* What _parseBool does once must/filter, should and must_not are compiled;
\* useShould says whether the should group is pushed.
BoolResult_unwrapped(mustResult, shouldResult, notParts, useShould) ==
    LET finalClauses ==
            (IF ~mustResult.null THEN <<mustResult.sql>> ELSE <<>>)
            \o (IF ~shouldResult.null /\ useShould THEN <<shouldResult.sql>> ELSE <<>>)
            \o [i \in DOMAIN notParts |->
                  K(<<"(", "NOT", " ">>) \o notParts[i].sql \o K(<<")">>)]
        allParams ==
            (IF ~mustResult.null THEN mustResult.params ELSE <<>>)
            \o (IF ~shouldResult.null /\ useShould THEN shouldResult.params ELSE <<>>)
            \o Flatten([i \in DOMAIN notParts |-> notParts[i].params])
    IN IF ~Ok(mustResult) THEN Throw(mustResult.err)
       ELSE IF ~Ok(shouldResult) THEN Throw(shouldResult.err)
       ELSE IF FirstError(notParts).kind # "none" THEN Throw(FirstError(notParts))
       ELSE IF Len(finalClauses) = 0 THEN Res(TRUE_SQL, <<>>)
       ELSE Res(JoinSql(finalClauses, K(<<" ", "AND", " ">>)), allParams)
BoolResult(mustResult, shouldResult, notParts, useShould) ==
    LET finalClauses ==
            (IF ~mustResult.null THEN <<mustResult.sql>> ELSE <<>>)
            \o (IF ~shouldResult.null /\ useShould THEN <<shouldResult.sql>> ELSE <<>>)
            \o [i \in DOMAIN notParts |->
                  K(<<"(", "NOT", " ">>) \o notParts[i].sql \o K(<<")">>)]
        allParams ==
            (IF ~mustResult.null THEN mustResult.params ELSE <<>>)
            \o (IF ~shouldResult.null /\ useShould THEN shouldResult.params ELSE <<>>)
            \o Flatten([i \in DOMAIN notParts |-> notParts[i].params])
    IN IF ~Ok(mustResult) THEN Throw(mustResult.err)
       ELSE IF ~Ok(shouldResult) THEN Throw(shouldResult.err)
       ELSE IF FirstError(notParts).kind # "none" THEN Throw(FirstError(notParts))
       ELSE IF Len(finalClauses) = 0 THEN Res(TRUE_SQL, <<>>)
       ELSE Res(K(<<"(">>) \o JoinSql(finalClauses, K(<<" ", "AND", " ">>)) \o K(<<")">>),
                allParams)

\* boolObj.must, .filter, .should, .must_not: arrays, empty when absent.
_parseBool_keep_should(boolObj) ==
    BoolResult(processClauses(boolObj.must \o boolObj.filter, "AND"),
               processClauses(boolObj.should, "OR"),
               [i \in DOMAIN boolObj.must_not |-> _parseQuery(boolObj.must_not[i])], TRUE)
_parseBool_must_not_needs_must(boolObj) ==
    LET Combined(mustResult, shouldResult, notParts) ==
            BoolResult(mustResult, shouldResult,
                       IF mustResult.null THEN <<>> ELSE notParts, mustResult.null)
    IN Combined(processClauses(boolObj.must \o boolObj.filter, "AND"),
                processClauses(boolObj.should, "OR"),
                [i \in DOMAIN boolObj.must_not |-> _parseQuery(boolObj.must_not[i])])
_parseBool(boolObj) ==
    LET Combined(mustResult, shouldResult, notParts) ==
            BoolResult(mustResult, shouldResult, notParts, mustResult.null)
    IN Combined(processClauses(boolObj.must \o boolObj.filter, "AND"),
                processClauses(boolObj.should, "OR"),
                [i \in DOMAIN boolObj.must_not |-> _parseQuery(boolObj.must_not[i])])

_parseQuery_first_key(queryObj) ==
    LET tag == queryObj.keys[1]
    IN CASE tag = "bool" -> _parseBool(queryObj.body.bool)
         [] tag = "match" -> _parseMatch(queryObj.body.match)
         [] tag = "match_phrase" -> _parseMatchPhrase(queryObj.body.match_phrase)
         [] tag = "multi_match" -> _parseMultiMatch(queryObj.body.multi_match)
         [] tag = "exists" -> _parseExists(queryObj.body.exists)
         [] tag = "term" -> _parseTerm(queryObj.body.term)
         [] tag = "terms" -> _parseTerms(queryObj.body.terms)
         [] tag = "range" -> _parseRange(queryObj.body.range)
         [] OTHER -> Res(TRUE_SQL, <<>>)
_parseQuery_rejects_unknown(queryObj) ==
    IF Tags \cap DOMAIN queryObj.body = {} THEN Res(FALSE_SQL, <<>>)
    ELSE _parseQuery_first_key(queryObj)
_parseQuery(queryObj) ==
    LET has(tag) == tag \in DOMAIN queryObj.body
    IN CASE has("bool") -> _parseBool(queryObj.body.bool)
         [] ~has("bool") /\ has("match") -> _parseMatch(queryObj.body.match)
         [] ~has("bool") /\ ~has("match") /\ has("match_phrase") ->
                _parseMatchPhrase(queryObj.body.match_phrase)
         [] {"bool", "match", "match_phrase"} \cap DOMAIN queryObj.body = {}
               /\ has("multi_match") -> _parseMultiMatch(queryObj.body.multi_match)
         [] {"bool", "match", "match_phrase", "multi_match"} \cap DOMAIN queryObj.body = {}
               /\ has("exists") -> _parseExists(queryObj.body.exists)
         [] {"bool", "match", "match_phrase", "multi_match", "exists"}
                  \cap DOMAIN queryObj.body = {}
               /\ has("term") -> _parseTerm(queryObj.body.term)
         [] {"bool", "match", "match_phrase", "multi_match", "exists", "term"}
                  \cap DOMAIN queryObj.body = {}
               /\ has("terms") -> _parseTerms(queryObj.body.terms)
         [] Tags \cap DOMAIN queryObj.body = {"range"} -> _parseRange(queryObj.body.range)
         [] OTHER -> Res(TRUE_SQL, <<>>)

----------------------------------------------------------------------------
(* Join, projection, sort and SET lowering *)

\* The first failing result of a sequence of results, or the last one.
FirstFailure(results) ==
    IF \E i \in DOMAIN results : ~Ok(results[i])
    THEN Throw(FirstError(results))
    ELSE Res(<<>>, <<>>)

\* A join descriptor: type and on.op are texts, empty when absent; hasOn
\* says whether on is present, on.left and on.right are empty when absent.
JoinDef(type, target, hasOn, left, op, right) ==
    [type |-> type, target |-> target, hasOn |-> hasOn, left |-> left, op |-> op,
     right |-> right]

ParseOneJoin_skips_incomplete(joinDef) ==
    LET Lowered(type, target, left, op, right) ==
            IF target.kind # "none" THEN Throw(target)
            ELSE IF ~joinDef.hasOn \/ joinDef.left = <<>> \/ joinDef.right = <<>>
            THEN Res(<<>>, <<>>)
            ELSE IF ~Ok(left) THEN left
            ELSE IF ~Ok(right) THEN right
            ELSE Res(Interp(type, "jointype") \o K(<<" ", "JOIN", " ">>)
                        \o BackQuoted(joinDef.target)
                        \o K(<<" ", "ON", " ">>) \o left.sql \o K(<<" ">>) \o Interp(op, "op")
                        \o K(<<" ">>) \o right.sql, <<>>)
    IN Lowered(toUpperCase(IF joinDef.type = <<>> THEN <<"L", "E", "F", "T">> ELSE joinDef.type),
               _validateIdentifier(joinDef.target, "join target table"),
               _quoteField(joinDef.left),
               IF joinDef.op = <<>> THEN <<"=">> ELSE joinDef.op,
               _quoteField(joinDef.right))
ParseOneJoin(joinDef) ==
    LET Lowered(type, target, left, op, right) ==
            IF target.kind # "none" THEN Throw(target)
            ELSE IF ~joinDef.hasOn \/ joinDef.left = <<>> \/ joinDef.right = <<>>
            THEN Throw(Invalid("Invalid JOIN definition: 'on' clause is missing."))
            ELSE IF ~Ok(left) THEN left
            ELSE IF ~Ok(right) THEN right
            ELSE Res(Interp(type, "jointype") \o K(<<" ", "JOIN", " ">>)
                        \o BackQuoted(joinDef.target)
                        \o K(<<" ", "ON", " ">>) \o left.sql \o K(<<" ">>) \o Interp(op, "op")
                        \o K(<<" ">>) \o right.sql, <<>>)
    IN Lowered(toUpperCase(IF joinDef.type = <<>> THEN <<"L", "E", "F", "T">> ELSE joinDef.type),
               _validateIdentifier(joinDef.target, "join target table"),
               _quoteField(joinDef.left),
               IF joinDef.op = <<>> THEN <<"=">> ELSE joinDef.op,
               _quoteField(joinDef.right))

\* The parts of an array lowered one by one: the first failure, or the parts
\* joined by sep after prefix; an empty array gives empty.
JoinParts(parts, prefix, sep, empty) ==
    IF Len(parts) = 0 THEN Res(empty, <<>>)
    ELSE IF ~Ok(FirstFailure(parts)) THEN FirstFailure(parts)
    ELSE Res(prefix \o JoinSql([i \in DOMAIN parts |-> parts[i].sql], sep), <<>>)

_parseJoin(joinArr) ==
    JoinParts([i \in DOMAIN joinArr |-> ParseOneJoin(joinArr[i])], <<>>, K(<<" ">>), <<>>)

\* /^(.*)\s+as\s+(.*)$/i: the positions where "as" stands between blanks.
AsAt(s, j) ==
    /\ j > 1 /\ j + 2 <= Len(s)
    /\ s[j - 1] \in Whitespace /\ s[j] \in {"a", "A"} /\ s[j + 1] \in {"s", "S"}
    /\ s[j + 2] \in Whitespace
HasAs(s) == \E j \in 1..Len(s) : AsAt(s, j)
LastAs(s) == CHOOSE j \in 1..Len(s) : AsAt(s, j) /\ \A k \in (j + 1)..Len(s) : ~AsAt(s, k)

ParseOneSource(field) ==
    IF HasAs(field)
    THEN LET Aliased(originalField, alias, checked) ==
                 IF ~Ok(originalField) THEN originalField
                 ELSE IF checked.kind # "none" THEN Throw(checked)
                 ELSE Res(originalField.sql \o K(<<" ", "as", " ">>) \o BackQuoted(alias), <<>>)
             WithAlias(originalField, alias) ==
                 Aliased(originalField, alias, _validateIdentifier(alias, "source alias"))
             Match(j) ==
                 WithAlias(_quoteField(trim(SubSeq(field, 1, j - 1))),
                           trim(SubSeq(field, j + 2, Len(field))))
         IN Match(LastAs(field))
    ELSE _quoteField(field)

_parseSource(sourceArr) ==
    JoinParts([i \in DOMAIN sourceArr |-> ParseOneSource(sourceArr[i])],
              <<>>, K(<<",", " ">>), K(<<"*">>))

\* A sort entry: [field, dir], dir the text of the direction value.
ParseOneSort_case_sensitive(sortObj) ==
    LET Direction(given) ==
            IF given = <<"d", "e", "s", "c">> THEN "DESC" ELSE "ASC"
        Lowered(fieldSql, direction) ==
            IF ~Ok(fieldSql) THEN fieldSql
            ELSE Res(fieldSql.sql \o K(<<" ", direction>>), <<>>)
    IN Lowered(_quoteField(sortObj.field), Direction(sortObj.dir))
ParseOneSort(sortObj) ==
    LET Direction(upper) ==
            IF upper # <<"A", "S", "C">> /\ upper # <<"D", "E", "S", "C">>
            THEN "ASC"
            ELSE IF upper = <<"A", "S", "C">> THEN "ASC" ELSE "DESC"
        Lowered(fieldSql, direction) ==
            IF ~Ok(fieldSql) THEN fieldSql
            ELSE Res(fieldSql.sql \o K(<<" ", direction>>), <<>>)
    IN Lowered(_quoteField(sortObj.field), Direction(toUpperCase(sortObj.dir)))

_parseSort(sortArr) ==
    JoinParts([i \in DOMAIN sortArr |-> ParseOneSort(sortArr[i])],
              K(<<"ORDER BY", " ">>), K(<<",", " ">>), <<>>)

\* A document: its entries [k, v] in the object's own key order.
Keys(doc) == [i \in DOMAIN doc |-> doc[i].k]
Values(doc) == [i \in DOMAIN doc |-> doc[i].v]

\* setSql in .sql and setParams in .params.
_parseSetClause(doc) ==
    LET Lowered(parts) ==
            IF ~Ok(FirstFailure(parts)) THEN FirstFailure(parts)
            ELSE Res(JoinSql([i \in DOMAIN parts |->
                                parts[i].sql \o K(<<" ", "=", " ">>) \o Placeholder],
                             K(<<",", " ">>)),
                     Values(doc))
    IN Lowered([i \in DOMAIN doc |-> _quoteField(doc[i].k)])

----------------------------------------------------------------------------
(* Statement builders: what each method does before it reaches the backend. *)
(* The result is the statement and its parameters, or the error thrown.     *)

QuotedList(names) == JoinSql([i \in DOMAIN names |-> BackQuoted(names[i])], K(<<",", " ">>))
PlaceholderList(names) == JoinSql([i \in DOMAIN names |-> Placeholder], K(<<",", " ">>))

\* The outcome of a validation as a result: empty text, or the error thrown.
Checked(e) == IF e.kind = "none" THEN Res(<<>>, <<>>) ELSE Throw(e)

ValidateEach(names, context) ==
    FirstFailure([i \in DOMAIN names |-> Checked(_validateIdentifier(names[i], context))])

\* columns: entries [k, v], v the column definition text.
CreateStatement(table, columns) ==
    LET Def(column, e) ==
            IF e.kind # "none" THEN Throw(e)
            ELSE Res(BackQuoted(column.k) \o K(<<" ">>) \o Interp(column.v, "def"), <<>>)
        Built(checked, defs) ==
            IF table = <<>> \/ Len(columns) = 0
            THEN Throw(Invalid("Table and columns are required."))
            ELSE IF checked.kind # "none" THEN Throw(checked)
            ELSE IF ~Ok(FirstFailure(defs)) THEN FirstFailure(defs)
            ELSE Res(K(<<"CREATE TABLE IF NOT EXISTS", " ">>) \o BackQuoted(table)
                       \o K(<<" ", "(">>)
                       \o JoinSql([i \in DOMAIN defs |-> defs[i].sql], K(<<",", " ">>))
                       \o K(<<")">>), <<>>)
    IN Built(_validateIdentifier(table, "table name"),
             [i \in DOMAIN columns |->
                Def(columns[i], _validateIdentifier(columns[i].k, "column name"))])

DropStatement(table) ==
    LET Built(checked) ==
            IF table = <<>> THEN Throw(Invalid("Table name is required for drop."))
            ELSE IF checked.kind # "none" THEN Throw(checked)
            ELSE Res(K(<<"DROP TABLE IF EXISTS", " ">>) \o BackQuoted(table), <<>>)
    IN Built(_validateIdentifier(table, "table name"))

\* fields.join('_').replace(/->>/g, '_')
RECURSIVE ReplaceLongArrow(_)
ReplaceLongArrow(s) ==
    IF s = <<>> THEN <<>>
    ELSE IF Len(s) >= 3 /\ SubSeq(s, 1, 3) = <<"-", ">", ">">>
    THEN <<"_">> \o ReplaceLongArrow(SubSeq(s, 4, Len(s)))
    ELSE <<Head(s)>> \o ReplaceLongArrow(Tail(s))

\* options.name is a text, empty when absent.
CreateIndexStatement(table, fields, unique, name) ==
    LET Built(checked, indexName, checkedName, quoted) ==
            IF table = <<>> \/ Len(fields) = 0
            THEN Throw(Invalid("Table name and at least one field are required."))
            ELSE IF checked.kind # "none" THEN Throw(checked)
            ELSE IF checkedName.kind # "none" THEN Throw(checkedName)
            ELSE IF ~Ok(FirstFailure(quoted)) THEN FirstFailure(quoted)
            ELSE Res(K(<<"CREATE", " ">>) \o (IF unique THEN K(<<"UNIQUE">>) ELSE <<>>)
                       \o K(<<" ", "INDEX IF NOT EXISTS", " ">>) \o BackQuoted(indexName)
                       \o K(<<" ", "ON", " ">>) \o BackQuoted(table) \o K(<<" ", "(">>)
                       \o JoinSql([i \in DOMAIN quoted |-> quoted[i].sql], K(<<",", " ">>))
                       \o K(<<")">>), <<>>)
        Named(indexName) ==
            Built(_validateIdentifier(table, "table name"), indexName,
                  _validateIdentifier(indexName, "index name"),
                  [i \in DOMAIN fields |-> _quoteField(fields[i])])
    IN Named(IF name # <<>> THEN name
             ELSE <<"i", "d", "x", "_">> \o table \o <<"_">>
                     \o ReplaceLongArrow(JoinSql(fields, <<"_">>)))

DropIndexStatement(indexName) ==
    LET Built(checked) ==
            IF indexName = <<>> THEN Throw(Invalid("Index name is required for dropIndex."))
            ELSE IF checked.kind # "none" THEN Throw(checked)
            ELSE Res(K(<<"DROP INDEX IF EXISTS", " ">>) \o BackQuoted(indexName), <<>>)
    IN Built(_validateIdentifier(indexName, "index name"))

\* JSON.stringify is not modelled: the values of the model are never objects.
\* items: a non-empty array of documents; the statement is built from the
\* keys of the first one.
InsertStatement(table, items) ==
    LET Built(checked, keys, columns) ==
            IF table = <<>> THEN Throw(Invalid("Table and data are required for insert."))
            ELSE IF checked.kind # "none" THEN Throw(checked)
            ELSE IF ~Ok(columns) THEN columns
            ELSE Res(K(<<"INSERT INTO", " ">>) \o BackQuoted(table) \o K(<<" ", "(">>)
                       \o QuotedList(keys) \o K(<<")", " ", "VALUES", " ", "(">>)
                       \o PlaceholderList(keys) \o K(<<")">>), <<>>)
    IN Built(_validateIdentifier(table, "table name"), Keys(items[1]),
             ValidateEach(Keys(items[1]), "column name"))

UpdateStatement(table, doc, query) ==
    LET Built(checked, set, where) ==
            IF table = <<>> THEN Throw(Invalid("Table, doc, and query are required for update."))
            ELSE IF checked.kind # "none" THEN Throw(checked)
            ELSE IF ~Ok(set) THEN set
            ELSE IF set.sql = <<>>
            THEN Throw(Invalid("Update document (doc) is empty or invalid."))
            ELSE IF ~Ok(where) THEN where
            ELSE Res(K(<<"UPDATE", " ">>) \o BackQuoted(table) \o K(<<" ", "SET", " ">>)
                       \o set.sql \o K(<<" ", "WHERE", " ">>) \o where.sql,
                     set.params \o where.params)
    IN Built(_validateIdentifier(table, "table name"), _parseSetClause(doc), _parseQuery(query))

DeleteStatement(table, query) ==
    LET Built(checked, where) ==
            IF table = <<>> THEN Throw(Invalid("Table and query object are required for delete."))
            ELSE IF checked.kind # "none" THEN Throw(checked)
            ELSE IF ~Ok(where) THEN where
            ELSE Res(K(<<"DELETE FROM", " ">>) \o BackQuoted(table) \o K(<<" ", "WHERE", " ">>)
                       \o where.sql, where.params)
    IN Built(_validateIdentifier(table, "table name"), _parseQuery(query))

\* conflictKeys: the conflict key as an array of texts, empty when absent.
UpsertStatement(table, doc, conflictKeys) ==
    LET Built(checked, keys, updateKeys, columns, conflicts) ==
            IF table = <<>> \/ Len(conflictKeys) = 0 \/ Len(doc) = 0
            THEN Throw(Invalid("Table, doc, and conflictKey are required for upsert."))
            ELSE IF checked.kind # "none" THEN Throw(checked)
            ELSE IF ~Ok(columns) THEN columns
            ELSE IF ~Ok(conflicts) THEN conflicts
            ELSE Res(K(<<"INSERT INTO", " ">>) \o BackQuoted(table) \o K(<<" ", "(">>)
                       \o QuotedList(keys) \o K(<<")", " ", "VALUES", " ", "(">>)
                       \o PlaceholderList(keys) \o K(<<")", " ", "ON CONFLICT", "(">>)
                       \o QuotedList(conflictKeys) \o K(<<")", " ", "DO UPDATE SET", " ">>)
                       \o JoinSql([i \in DOMAIN updateKeys |->
                                     BackQuoted(updateKeys[i])
                                         \o K(<<" ", "=", " ", "excluded", ".">>)
                                         \o BackQuoted(updateKeys[i])], K(<<",", " ">>)),
                     Values(doc))
    IN Built(_validateIdentifier(table, "table name"), Keys(doc),
             SelectSeq(Keys(doc), LAMBDA k : \A i \in DOMAIN conflictKeys : conflictKeys[i] # k),
             ValidateEach(Keys(doc), "column name"),
             ValidateEach(conflictKeys, "conflict key"))

\* A request envelope: query is <<>> or <<clause>>, aggs is <<>> or
\* <<Aggs(..)>>, size and from are <<>> when absent and <<n>> when supplied.
\* hasGroupBy tells a group_by array (possibly empty) from an absent one.
Aggs(hasGroupBy, group_by, metrics) ==
    [hasGroupBy |-> hasGroupBy, group_by |-> group_by, metrics |-> metrics]
Metric(name, op, field) == [name |-> name, op |-> op, field |-> field]

DslQuery(source, query, join, sort, aggs, size, from) ==
    [source |-> source, query |-> query, join |-> join, sort |-> sort, aggs |-> aggs,
     size |-> size, from |-> from]

\* The truthiness of an optional number: absent and 0 are falsy.
Truthy(opt) == opt # <<>> /\ opt[1] # 0

WhereOf(dslQuery) ==
    IF dslQuery.query = <<>> THEN Res(TRUE_SQL, <<>>) ELSE _parseQuery(dslQuery.query[1])

\* A search that binds offset 0 whatever the request's from.
SearchStatement_no_offset(table, dslQuery) ==
    LET Built(checked, joinSql, selectSql, where, orderBy, limitParams, offsetParams) ==
            IF table = <<>> THEN Throw(Invalid("Table name is required for search."))
            ELSE IF checked.kind # "none" THEN Throw(checked)
            ELSE IF ~Ok(joinSql) THEN joinSql
            ELSE IF ~Ok(selectSql) THEN selectSql
            ELSE IF ~Ok(where) THEN where
            ELSE IF ~Ok(orderBy) THEN orderBy
            ELSE Res(K(<<"SELECT", " ">>) \o selectSql.sql \o K(<<" ", "FROM", " ">>)
                       \o BackQuoted(table) \o K(<<" ">>) \o joinSql.sql
                       \o K(<<" ", "WHERE", " ">>)
                       \o where.sql \o K(<<" ">>) \o orderBy.sql
                       \o K(<<" ", "LIMIT", " ", "?">>)
                       \o K(<<" ", "OFFSET", " ", "?">>),
                     where.params \o limitParams \o offsetParams)
    IN Built(_validateIdentifier(table, "table name"),
             _parseJoin(dslQuery.join),
             _parseSource(dslQuery.source),
             WhereOf(dslQuery),
             _parseSort(dslQuery.sort),
             <<IF Truthy(dslQuery.size) THEN Num(dslQuery.size[1]) ELSE Num(10)>>,
             <<Num(0)>>)

SearchStatement(table, dslQuery) ==
    LET Built(checked, joinSql, selectSql, where, orderBy, limitParams, offsetParams) ==
            IF table = <<>> THEN Throw(Invalid("Table name is required for search."))
            ELSE IF checked.kind # "none" THEN Throw(checked)
            ELSE IF ~Ok(joinSql) THEN joinSql
            ELSE IF ~Ok(selectSql) THEN selectSql
            ELSE IF ~Ok(where) THEN where
            ELSE IF ~Ok(orderBy) THEN orderBy
            ELSE Res(K(<<"SELECT", " ">>) \o selectSql.sql \o K(<<" ", "FROM", " ">>)
                       \o BackQuoted(table) \o K(<<" ">>) \o joinSql.sql
                       \o K(<<" ", "WHERE", " ">>)
                       \o where.sql \o K(<<" ">>) \o orderBy.sql
                       \o K(<<" ", "LIMIT", " ", "?">>)
                       \o K(<<" ", "OFFSET", " ", "?">>),
                     where.params \o limitParams \o offsetParams)
    IN Built(_validateIdentifier(table, "table name"),
             _parseJoin(dslQuery.join),
             _parseSource(dslQuery.source),
             WhereOf(dslQuery),
             _parseSort(dslQuery.sort),
             <<IF Truthy(dslQuery.size) THEN Num(dslQuery.size[1]) ELSE Num(10)>>,
             <<IF Truthy(dslQuery.from) THEN Num(dslQuery.from[1]) ELSE Num(0)>>)

supportedOps == {"sum", "avg", "count", "min", "max"}

\* A metric lowering that rejects an operator it does not support.
ParseOneMetric_rejects_unknown(metric) ==
    LET Lowered(checked, fieldSql) ==
            IF checked.kind # "none" THEN Throw(checked)
            ELSE IF metric.op \notin supportedOps
            THEN Throw(Invalid("Unsupported metric operator."))
            ELSE IF ~Ok(fieldSql) THEN fieldSql
            ELSE Res(K(<<CASE metric.op = "sum" -> "SUM" [] metric.op = "avg" -> "AVG"
                           [] metric.op = "count" -> "COUNT" [] metric.op = "min" -> "MIN"
                           [] metric.op = "max" -> "MAX", "(">>)
                       \o fieldSql.sql \o K(<<")", " ", "as", " ">>)
                       \o BackQuoted(metric.name), <<>>)
    IN Lowered(_validateIdentifier(metric.name, "metric alias"),
               IF metric.field = <<"*">> THEN Res(K(<<"*">>), <<>>)
               ELSE _quoteField(metric.field))

\* A metric: [name, op, field]; op is the first key of the operation object.
ParseOneMetric(metric) ==
    LET Lowered(checked, fieldSql) ==
            IF checked.kind # "none" THEN Throw(checked)
            ELSE IF metric.op \notin supportedOps THEN Res(<<>>, <<>>)
            ELSE IF ~Ok(fieldSql) THEN fieldSql
            ELSE Res(K(<<CASE metric.op = "sum" -> "SUM" [] metric.op = "avg" -> "AVG"
                           [] metric.op = "count" -> "COUNT" [] metric.op = "min" -> "MIN"
                           [] metric.op = "max" -> "MAX", "(">>)
                       \o fieldSql.sql \o K(<<")", " ", "as", " ">>)
                       \o BackQuoted(metric.name), <<>>)
    IN Lowered(_validateIdentifier(metric.name, "metric alias"),
               IF metric.field = <<"*">> THEN Res(K(<<"*">>), <<>>)
               ELSE _quoteField(metric.field))

AggregateStatement(table, dslQuery) ==
    LET Built(checked, aggs, joinSql, where, groupFields, metrics, orderBy, limitSql,
              limitParams, selectParts) ==
            IF checked.kind # "none" THEN Throw(checked)
            ELSE IF ~Ok(joinSql) THEN joinSql
            ELSE IF ~Ok(where) THEN where
            ELSE IF ~Ok(FirstFailure(groupFields)) THEN FirstFailure(groupFields)
            ELSE IF ~Ok(FirstFailure(metrics)) THEN FirstFailure(metrics)
            ELSE IF Len(selectParts) = 0
            THEN Throw(Invalid("Aggregation must define group_by or metrics."))
            ELSE IF ~Ok(orderBy) THEN orderBy
            ELSE Res(K(<<"SELECT", " ">>) \o JoinSql(selectParts, K(<<",", " ">>))
                       \o K(<<" ", "FROM", " ">>) \o BackQuoted(table) \o K(<<" ">>)
                       \o joinSql.sql
                       \o K(<<" ", "WHERE", " ">>) \o where.sql \o K(<<" ">>)
                       \o (IF ~aggs.hasGroupBy THEN <<>>
                           ELSE K(<<"GROUP BY", " ">>)
                                   \o JoinSql([i \in DOMAIN groupFields |-> groupFields[i].sql],
                                              K(<<",", " ">>)))
                       \o K(<<" ">>) \o orderBy.sql \o K(<<" ">>) \o limitSql,
                     where.params \o limitParams)
        Selected(checked, aggs, joinSql, where, groupFields, metrics, orderBy, limitSql,
                 limitParams) ==
            Built(checked, aggs, joinSql, where, groupFields, metrics, orderBy, limitSql,
                  limitParams,
                  [i \in DOMAIN groupFields |-> groupFields[i].sql]
                     \o SelectSeq([i \in DOMAIN metrics |-> metrics[i].sql],
                                  LAMBDA part : part # <<>>))
        WithAggs(aggs) ==
            Selected(_validateIdentifier(table, "table name"), aggs,
                     _parseJoin(dslQuery.join),
                     WhereOf(dslQuery),
                     [i \in DOMAIN aggs.group_by |-> _quoteField(aggs.group_by[i])],
                     [i \in DOMAIN aggs.metrics |-> ParseOneMetric(aggs.metrics[i])],
                     _parseSort(dslQuery.sort),
                     IF Truthy(dslQuery.size) THEN K(<<"LIMIT", " ", "?">>) ELSE <<>>,
                     IF Truthy(dslQuery.size) THEN <<Num(dslQuery.size[1])>> ELSE <<>>)
    IN IF table = <<>> \/ dslQuery.aggs = <<>>
       THEN Throw(Invalid("Table and aggs block are required."))
       ELSE WithAggs(dslQuery.aggs[1])

----------------------------------------------------------------------------
(* The backend's reading of a WHERE expression.  The backend sees only the *)
(* characters of the statement and the bound parameter list.               *)

\* The position of the next occurrence of character c at or after i, or 0.
NextAt(text, c, i) ==
    IF \E j \in i..Len(text) : text[j] = c
    THEN CHOOSE j \in i..Len(text) : text[j] = c /\ \A k \in i..(j - 1) : text[k] # c
    ELSE 0

\* Lexemes: back-quoted names ("id"), quoted literals ("lit"), everything
\* else one symbol per token ("sym"); blanks are dropped; an unterminated
\* quote is "bad".
RECURSIVE Lex(_, _)
Lex(text, i) ==
    IF i > Len(text) THEN <<>>
    ELSE LET quotes == {j \in i..Len(text) : text[j] = BQ \/ text[j] = "'"}
             q == IF quotes = {} THEN Len(text) + 1
                  ELSE CHOOSE j \in quotes : \A k \in quotes : j <= k
             plain == SelectSeq(SubSeq(text, i, q - 1), LAMBDA c : c # " ")
             Quoted(j) ==
                 IF j = 0 THEN <<[t |-> "bad", v |-> <<>>]>>
                 ELSE <<[t |-> IF text[q] = BQ THEN "id" ELSE "lit",
                         v |-> SubSeq(text, q + 1, j - 1)]>> \o Lex(text, j + 1)
         IN [n \in DOMAIN plain |-> [t |-> "sym", v |-> <<plain[n]>>]]
               \o (IF q > Len(text) THEN <<>>
                   ELSE Quoted(NextAt(text, text[q], q + 1)))

IsSym(L, i, s) == i <= Len(L) /\ L[i].t = "sym" /\ L[i].v = <<s>>
IsKind(L, i, t) == i <= Len(L) /\ L[i].t = t

\* Three-valued logic over SQL values: 1, 0 and NULL.
SqlTrue == Num(1)
SqlFalse == Num(0)
Truth(v) == CASE v.k = "null" -> "N"
              [] v.k = "num" -> IF v.n # 0 THEN "T" ELSE "F"
              [] v.k = "str" -> "F"
FromBool(b) == IF b THEN SqlTrue ELSE SqlFalse
Not3(v) == CASE Truth(v) = "N" -> Null [] Truth(v) = "T" -> SqlFalse [] Truth(v) = "F" -> SqlTrue
And3(a, b) == IF Truth(a) = "F" \/ Truth(b) = "F" THEN SqlFalse
              ELSE IF Truth(a) = "N" \/ Truth(b) = "N" THEN Null ELSE SqlTrue
Or3(a, b) == IF Truth(a) = "T" \/ Truth(b) = "T" THEN SqlTrue
             ELSE IF Truth(a) = "N" \/ Truth(b) = "N" THEN Null ELSE SqlFalse

\* Text collation of the characters the model's values use.
Collation == <<"%", "0", "1", "2", "3", "4", "5", "6", "7", "8", "9", "_",
               "a", "b", "c", "d", "e", "x", "y", "z">>
Rank(c) == IF \E i \in DOMAIN Collation : Collation[i] = c
           THEN CHOOSE i \in DOMAIN Collation : Collation[i] = c ELSE 0
RECURSIVE TextLess(_, _)
TextLess(a, b) ==
    IF b = <<>> THEN FALSE
    ELSE IF a = <<>> THEN TRUE
    ELSE IF Rank(Head(a)) # Rank(Head(b)) THEN Rank(Head(a)) < Rank(Head(b))
    ELSE TextLess(Tail(a), Tail(b))

\* Numbers sort before text.
ValueLess(a, b) ==
    CASE a.k = "num" /\ b.k = "num" -> a.n < b.n
      [] a.k = "num" /\ b.k = "str" -> TRUE
      [] a.k = "str" /\ b.k = "num" -> FALSE
      [] a.k = "str" /\ b.k = "str" -> TextLess(a.s, b.s)
      [] OTHER -> FALSE

Compare(op, a, b) ==
    IF a.k = "null" \/ b.k = "null" THEN Null
    ELSE CASE op = "=" -> FromBool(a = b)
           [] op = "<" -> FromBool(ValueLess(a, b))
           [] op = ">" -> FromBool(ValueLess(b, a))
           [] op = "<=" -> FromBool(~ValueLess(b, a))
           [] op = ">=" -> FromBool(~ValueLess(a, b))

\* LIKE: % matches any run of characters, _ any one character.
RECURSIVE LikeMatch(_, _)
LikeMatch(p, s) ==
    IF p = <<>> THEN s = <<>>
    ELSE IF Head(p) = "%"
    THEN LikeMatch(Tail(p), s) \/ (s # <<>> /\ LikeMatch(p, Tail(s)))
    ELSE s # <<>> /\ (Head(p) = "_" \/ Head(p) = Head(s)) /\ LikeMatch(Tail(p), Tail(s))

SqlLike(a, b) ==
    IF a.k = "null" \/ b.k = "null" THEN Null ELSE FromBool(LikeMatch(String(b), String(a)))

\* x IN (list)
SqlIn(x, list) ==
    IF \E i \in DOMAIN list : Truth(Compare("=", x, list[i])) = "T" THEN SqlTrue
    ELSE IF x.k = "null" \/ \E i \in DOMAIN list : list[i].k = "null" THEN Null
    ELSE SqlFalse

\* The parameter bound to the placeholder at lexeme i: placeholders are
\* numbered left to right over the whole statement (C.base of them precede
\* the expression).
ParamIndex(C, i) == C.base + Cardinality({j \in 1..i : IsSym(C.L, j, "?")})

Parsed(v, next) == [ok |-> TRUE, v |-> v, next |-> next]
Failed == [ok |-> FALSE, v |-> Null, next |-> 0]

ComparisonOps == {"=", "<", ">", "<=", ">="}

RECURSIVE EvalOr(_, _), EvalOrRest(_, _), EvalAnd(_, _), EvalAndRest(_, _),
          EvalNot(_, _), EvalCmp(_, _), EvalPrimary(_, _), EvalList(_, _, _)

\* A column reference name or table.name, read in row C.row of table C.table.
EvalColumn(C, i) ==
    LET L == C.L
        qualified == IsSym(L, i + 1, ".") /\ IsKind(L, i + 2, "id")
        name == IF qualified THEN L[i + 2].v ELSE L[i].v
        next == IF qualified THEN i + 3 ELSE i + 1
        isJson == (IsSym(L, next, "->>") \/ IsSym(L, next, "->")) /\ IsKind(L, next + 1, "lit")
    IN IF qualified /\ L[i].v # C.table THEN Failed
       ELSE IF name \notin DOMAIN C.row THEN Failed
       ELSE IF ~isJson THEN Parsed(C.row[name], next)
       ELSE IF C.row[name].k = "str" THEN Failed   \* malformed JSON
       ELSE Parsed(Null, next + 2)

EvalPrimary(C, i) ==
    LET L == C.L
        Closed(r) == IF r.ok /\ IsSym(L, r.next, ")") THEN Parsed(r.v, r.next + 1) ELSE Failed
    IN IF i > Len(L) THEN Failed
       ELSE IF IsSym(L, i, "(") THEN Closed(EvalOr(C, i + 1))
       ELSE IF IsSym(L, i, "?")
       THEN IF ParamIndex(C, i) \in DOMAIN C.params
            THEN Parsed(C.params[ParamIndex(C, i)], i + 1) ELSE Failed
       ELSE IF IsSym(L, i, "1") THEN Parsed(Num(1), i + 1)
       ELSE IF IsSym(L, i, "0") THEN Parsed(Num(0), i + 1)
       ELSE IF IsKind(L, i, "lit") THEN Parsed(Str(L[i].v), i + 1)
       ELSE IF IsKind(L, i, "id") THEN EvalColumn(C, i)
       ELSE Failed

\* The primaries of a parenthesised list from lexeme i, up to its ")".
EvalList(C, i, acc) ==
    LET Item(r) ==
            IF ~r.ok THEN Failed
            ELSE IF IsSym(C.L, r.next, ",") THEN EvalList(C, r.next + 1, Append(acc, r.v))
            ELSE IF IsSym(C.L, r.next, ")") THEN Parsed(Append(acc, r.v), r.next + 1)
            ELSE Failed
    IN Item(EvalPrimary(C, i))

\* A primary, then a comparison, LIKE, IN (list) or IS NOT NULL.
EvalCmp(C, i) ==
    LET L == C.L
        Binary(left, op, right) ==
            IF ~right.ok THEN Failed
            ELSE IF op = "LIKE" THEN Parsed(SqlLike(left.v, right.v), right.next)
            ELSE Parsed(Compare(op, left.v, right.v), right.next)
        Member(left, list) ==
            IF list.ok THEN Parsed(SqlIn(left.v, list.v), list.next) ELSE Failed
        Operator(left, n) ==
            IF ~left.ok THEN Failed
            ELSE IF n <= Len(L) /\ L[n].t = "sym" /\ L[n].v[1] \in ComparisonOps \cup {"LIKE"}
            THEN Binary(left, L[n].v[1], EvalPrimary(C, n + 1))
            ELSE IF IsSym(L, n, "IN")
            THEN IF ~IsSym(L, n + 1, "(") THEN Failed
                 ELSE Member(left, EvalList(C, n + 2, <<>>))
            ELSE IF IsSym(L, n, "IS")
            THEN IF IsSym(L, n + 1, "NOT") /\ IsSym(L, n + 2, "NULL")
                 THEN Parsed(FromBool(left.v.k # "null"), n + 3) ELSE Failed
            ELSE left
        Operand(left) == Operator(left, left.next)
    IN Operand(EvalPrimary(C, i))

\* NOT binds weaker than the comparisons and stronger than AND.
EvalNot(C, i) ==
    LET Negated(r) == IF r.ok THEN Parsed(Not3(r.v), r.next) ELSE Failed
    IN IF IsSym(C.L, i, "NOT") THEN Negated(EvalNot(C, i + 1)) ELSE EvalCmp(C, i)

EvalAndRest(C, left) ==
    LET Conjunct(right) ==
            IF right.ok THEN EvalAndRest(C, Parsed(And3(left.v, right.v), right.next))
            ELSE Failed
    IN IF left.ok /\ IsSym(C.L, left.next, "AND") THEN Conjunct(EvalNot(C, left.next + 1))
       ELSE left
EvalAnd(C, i) == EvalAndRest(C, EvalNot(C, i))

\* AND binds stronger than OR.
EvalOrRest(C, left) ==
    LET Disjunct(right) ==
            IF right.ok THEN EvalOrRest(C, Parsed(Or3(left.v, right.v), right.next))
            ELSE Failed
    IN IF left.ok /\ IsSym(C.L, left.next, "OR") THEN Disjunct(EvalAnd(C, left.next + 1))
       ELSE left
EvalOr(C, i) == EvalOrRest(C, EvalAnd(C, i))

\* The expression starting at lexeme `start` of a statement, read in one
\* row with the statement's parameters bound.
EvalAt(L, start, params, table, row) ==
    EvalOr([L |-> L, params |-> params, base |-> 0, table |-> table, row |-> row], start)

CountPlaceholders(L) == Cardinality({j \in DOMAIN L : IsSym(L, j, "?")})

\* A whole expression bound to a parameter list and read in one row: "T",
\* "F" or "N", or "E" when the backend rejects it (syntax, unknown column,
\* wrong number of parameters).
EvalWhere(text, params, table, row) ==
    LET L == Lex(text, 1)
        Verdict(r) ==
            IF \E i \in DOMAIN L : L[i].t = "bad" THEN "E"
            ELSE IF ~r.ok \/ r.next # Len(L) + 1 THEN "E"
            ELSE IF CountPlaceholders(L) # Len(params) THEN "E"
            ELSE Truth(r.v)
    IN Verdict(EvalAt(L, 1, params, table, row))

----------------------------------------------------------------------------
(* The backend: tables with columns, uniqueness constraints and rows.      *)
(* Joined rows, projections and grouping are not modelled: a SELECT is     *)
(* read over the rows of its FROM table.                                   *)

EmptyDb == [tables |-> [n \in {} |-> 0], indexes |-> {}]

HasTable(d, name) == name \in DOMAIN d.tables
WithTable(d, name, t) ==
    [d EXCEPT !.tables = [n \in DOMAIN d.tables \cup {name} |->
                            IF n = name THEN t ELSE d.tables[n]]]
WithoutTable(d, name) ==
    [tables |-> [n \in DOMAIN d.tables \ {name} |-> d.tables[n]],
     indexes |-> {ix \in d.indexes : ix.table # name}]

Range_(seq) == {seq[i] : i \in DOMAIN seq}

\* The uniqueness constraints on a table: from its column definitions and
\* from its unique indexes.
Constraints(d, name) ==
    d.tables[name].unique \cup {Range_(ix.cols) : ix \in {x \in d.indexes : x.table = name /\ x.unique}}

Conflict(r1, r2, cons) == \A c \in cons : r1[c].k # "null" /\ r1[c] = r2[c]
Violates(d, name, rows) ==
    \E i, j \in DOMAIN rows : i < j /\ \E cons \in Constraints(d, name) : Conflict(rows[i], rows[j], cons)

NullRow(cols) == [c \in Range_(cols) |-> Null]

\* The expression at lexeme `start` read in every row of rows and, last, in a
\* row of NULLs (which shows whether the backend can read the expression).
EvalRows(L, start, params, table, rows, cols) ==
    [i \in 1..(Len(rows) + 1) |->
       EvalAt(L, start, params, table, IF i <= Len(rows) THEN rows[i] ELSE NullRow(cols))]

\* The position of the first symbol s at or after i, or 0.
PosSym(L, s, i) ==
    IF \E j \in i..Len(L) : IsSym(L, j, s)
    THEN CHOOSE j \in i..Len(L) : IsSym(L, j, s) /\ \A k \in i..(j - 1) : ~IsSym(L, k, s)
    ELSE 0

\* The back-quoted names among lexemes i..j, in order.
RECURSIVE IdsIn(_, _, _)
IdsIn(L, i, j) ==
    IF i > j \/ i > Len(L) THEN <<>>
    ELSE (IF L[i].t = "id" THEN <<L[i].v>> ELSE <<>>) \o IdsIn(L, i + 1, j)

ExecOk(d, rows, changes) == [ok |-> TRUE, db |-> d, rows |-> rows, changes |-> changes]
ExecFail(d) == [ok |-> FALSE, db |-> d, rows |-> <<>>, changes |-> 0]

\* CREATE TABLE IF NOT EXISTS name (col def, ...)
ExecCreateTable(d, L) ==
    LET name == L[2].v
        colAt == {i \in 3..Len(L) : L[i].t = "id" /\ (IsSym(L, i - 1, "(") \/ IsSym(L, i - 1, ","))}
        cols == IdsIn(L, 3, Len(L))
        DefEnd(i) == IF \E j \in colAt : j > i
                     THEN (CHOOSE j \in colAt : j > i /\ \A k \in colAt : k > i => j <= k) - 1
                     ELSE Len(L)
        unique == {{L[i].v} : i \in {c \in colAt :
                       \E j \in c..DefEnd(c) : IsSym(L, j, "PRIMARY KEY") \/ IsSym(L, j, "UNIQUE")}}
    IN IF HasTable(d, name) THEN ExecOk(d, <<>>, 0)
       ELSE IF Cardinality(Range_(cols)) # Len(cols) THEN ExecFail(d)
       ELSE ExecOk(WithTable(d, name, [cols |-> cols, unique |-> unique, rows |-> <<>>]), <<>>, 0)

ExecDropTable(d, L) ==
    IF HasTable(d, L[2].v) THEN ExecOk(WithoutTable(d, L[2].v), <<>>, 0) ELSE ExecOk(d, <<>>, 0)

\* CREATE [UNIQUE] INDEX IF NOT EXISTS name ON table (fields)
ExecCreateIndex(d, L) ==
    LET unique == IsSym(L, 2, "UNIQUE")
        at == PosSym(L, "INDEX IF NOT EXISTS", 1)
        name == L[at + 1].v
        table == L[at + 3].v
        cols == IdsIn(L, at + 4, Len(L))
        ix == [name |-> name, table |-> table, cols |-> cols, unique |-> unique]
        d2 == [d EXCEPT !.indexes = @ \cup {ix}]
    IN IF ~HasTable(d, table) THEN ExecFail(d)
       ELSE IF \E i \in DOMAIN cols : cols[i] \notin Range_(d.tables[table].cols) THEN ExecFail(d)
       ELSE IF \E x \in d.indexes : x.name = name THEN ExecOk(d, <<>>, 0)
       ELSE IF Violates(d2, table, d.tables[table].rows) THEN ExecFail(d)
       ELSE ExecOk(d2, <<>>, 0)

ExecDropIndex(d, L) ==
    ExecOk([d EXCEPT !.indexes = {x \in @ : x.name # L[2].v}], <<>>, 0)

\* One INSERT INTO name (cols) VALUES (?, ...) [ON CONFLICT(keys) DO UPDATE
\* SET col = excluded.col, ...] with its parameters.
ExecInsert(d, L, params) ==
    LET name == L[2].v
        close == PosSym(L, ")", 3)
        cols == IdsIn(L, 3, close)
        upsert == PosSym(L, "ON CONFLICT", 1)
        setAt == PosSym(L, "DO UPDATE SET", 1)
        keys == IF upsert = 0 THEN <<>> ELSE IdsIn(L, upsert, setAt)
        updateCols == IF upsert = 0 THEN {} ELSE
                         {L[i].v : i \in {j \in (setAt + 1)..Len(L) :
                                            L[j].t = "id" /\ IsSym(L, j + 1, "=")}}
        t == d.tables[name]
        new == [c \in Range_(t.cols) |->
                  IF \E i \in DOMAIN cols : cols[i] = c
                  THEN params[CHOOSE i \in DOMAIN cols : cols[i] = c] ELSE Null]
        hit == {i \in DOMAIN t.rows : Conflict(new, t.rows[i], Range_(keys))}
        merged == [i \in DOMAIN t.rows |->
                     IF i \in hit THEN [c \in Range_(t.cols) |->
                                          IF c \in updateCols THEN new[c] ELSE t.rows[i][c]]
                     ELSE t.rows[i]]
        rows == IF upsert # 0 /\ hit # {} THEN merged ELSE Append(t.rows, new)
    IN IF ~HasTable(d, name) THEN ExecFail(d)
       ELSE IF \E i \in DOMAIN cols : cols[i] \notin Range_(t.cols) THEN ExecFail(d)
       ELSE IF Cardinality(Range_(cols)) # Len(cols) THEN ExecFail(d)
       ELSE IF CountPlaceholders(L) # Len(params) THEN ExecFail(d)
       ELSE IF upsert # 0 /\ (updateCols = {} \/ Range_(keys) \notin Constraints(d, name))
       THEN ExecFail(d)
       ELSE IF Violates(d, name, rows) THEN ExecFail(d)
       ELSE ExecOk(WithTable(d, name, [t EXCEPT !.rows = rows]), <<>>, 1)

\* The rows at the positions where the expression's truth value is in kept.
Pick(rows, sat, kept) ==
    LET at == SelectSeq([i \in DOMAIN rows |-> i], LAMBDA i : Truth(sat[i].v) \in kept)
    IN [k \in DOMAIN at |-> rows[at[k]]]

\* UPDATE name SET col = ?, ... WHERE expr, with the WHERE expression read
\* in every row and in a row of NULLs (all).
UpdateWhere(d, L, params, name, w, all) ==
    LET cols == IdsIn(L, 3, w)
        t == d.tables[name]
        sat == SubSeq(all, 1, Len(t.rows))
        probe == all[Len(all)]
        rows == [i \in DOMAIN t.rows |->
                   IF Truth(sat[i].v) = "T"
                   THEN [c \in Range_(t.cols) |->
                           IF \E k \in DOMAIN cols : cols[k] = c
                           THEN params[CHOOSE k \in DOMAIN cols : cols[k] = c /\
                                          \A m \in DOMAIN cols : cols[m] = c => m <= k]
                           ELSE t.rows[i][c]]
                   ELSE t.rows[i]]
    IN IF ~HasTable(d, name) THEN ExecFail(d)
       ELSE IF \E i \in DOMAIN cols : cols[i] \notin Range_(t.cols) THEN ExecFail(d)
       ELSE IF \E i \in 3..w : L[i].t = "lit" THEN ExecFail(d)
       ELSE IF CountPlaceholders(L) # Len(params) THEN ExecFail(d)
       ELSE IF ~probe.ok \/ probe.next # Len(L) + 1 THEN ExecFail(d)
       ELSE IF \E i \in DOMAIN sat : ~sat[i].ok THEN ExecFail(d)
       ELSE IF Violates(d, name, rows) THEN ExecFail(d)
       ELSE ExecOk(WithTable(d, name, [t EXCEPT !.rows = rows]), <<>>,
                   Cardinality({i \in DOMAIN sat : Truth(sat[i].v) = "T"}))
ExecUpdate(d, L, params) ==
    LET name == L[2].v
        w == PosSym(L, "WHERE", 1)
    IN UpdateWhere(d, L, params, name, w,
                   EvalRows(L, w + 1, params, name, d.tables[name].rows, d.tables[name].cols))

\* DELETE FROM name WHERE expr
DeleteWhere(d, L, params, name, all) ==
    LET t == d.tables[name]
        sat == SubSeq(all, 1, Len(t.rows))
        probe == all[Len(all)]
        rows == Pick(t.rows, all, {"F", "N"})
    IN IF ~HasTable(d, name) THEN ExecFail(d)
       ELSE IF CountPlaceholders(L) # Len(params) THEN ExecFail(d)
       ELSE IF ~probe.ok \/ probe.next # Len(L) + 1 THEN ExecFail(d)
       ELSE IF \E i \in DOMAIN sat : ~sat[i].ok THEN ExecFail(d)
       ELSE ExecOk(WithTable(d, name, [t EXCEPT !.rows = rows]), <<>>, Len(t.rows) - Len(rows))
ExecDelete(d, L, params) ==
    LET name == L[2].v
    IN DeleteWhere(d, L, params, name,
                   EvalRows(L, 4, params, name, d.tables[name].rows, d.tables[name].cols))

\* Sort keys of ORDER BY col [ASC|DESC], ... from lexeme i: [col, desc].
RECURSIVE SortKeys(_, _)
SortKeys(L, i) ==
    IF ~IsKind(L, i, "id") THEN <<>>
    ELSE LET qualified == IsSym(L, i + 1, ".") /\ IsKind(L, i + 2, "id")
             n == IF qualified THEN i + 3 ELSE i + 1
             key == [col |-> IF qualified THEN L[i + 2].v ELSE L[i].v, desc |-> IsSym(L, n, "DESC")]
             m == IF IsSym(L, n, "ASC") \/ IsSym(L, n, "DESC") THEN n + 1 ELSE n
         IN <<key>> \o (IF IsSym(L, m, ",") THEN SortKeys(L, m + 1) ELSE <<>>)

\* NULL sorts before every value.
Before(r1, r2, keys) ==
    \E k \in DOMAIN keys :
        /\ \A j \in 1..(k - 1) : r1[keys[j].col] = r2[keys[j].col]
        /\ LET a == IF keys[k].desc THEN r2[keys[k].col] ELSE r1[keys[k].col]
               b == IF keys[k].desc THEN r1[keys[k].col] ELSE r2[keys[k].col]
           IN (a.k = "null" /\ b.k # "null") \/ ValueLess(a, b)

RECURSIVE InsertSorted(_, _, _)
InsertSorted(sorted, row, keys) ==
    IF sorted = <<>> THEN <<row>>
    ELSE IF Before(row, Head(sorted), keys) THEN <<row>> \o sorted
    ELSE <<Head(sorted)>> \o InsertSorted(Tail(sorted), row, keys)

\* A stable sort of rows by the keys.
RECURSIVE SortRows(_, _)
SortRows(rows, keys) ==
    IF rows = <<>> THEN <<>>
    ELSE InsertSorted(SortRows(SubSeq(rows, 1, Len(rows) - 1), keys), rows[Len(rows)], keys)

Slice(rows, offset, limit) ==
    SubSeq(rows, offset + 1, IF offset + limit < Len(rows) THEN offset + limit ELSE Len(rows))

\* SELECT ... FROM name [joins] WHERE expr [GROUP BY ..] [ORDER BY ..]
\* [LIMIT ? [OFFSET ?]]
SelectWhere(d, L, params, f, name, w, all) ==
    LET targets == {L[j + 1].v : j \in {k \in f..w : IsSym(L, k, "JOIN") /\ IsKind(L, k + 1, "id")}}
        t == d.tables[name]
        probe == all[Len(all)]
        sat == SubSeq(all, 1, Len(t.rows))
        matched == Pick(t.rows, all, {"T"})
        g == PosSym(L, "GROUP BY", probe.next)
        o == PosSym(L, "ORDER BY", probe.next)
        keys == IF o = 0 THEN <<>> ELSE SortKeys(L, o + 1)
        lim == PosSym(L, "LIMIT", probe.next)
        off == PosSym(L, "OFFSET", probe.next)
        limit == IF lim = 0 THEN Null ELSE params[ParamIndex([L |-> L, base |-> 0], lim + 1)]
        offset == IF off = 0 THEN Num(0) ELSE params[ParamIndex([L |-> L, base |-> 0], off + 1)]
        sorted == SortRows(matched, keys)
    IN IF f = 0 \/ w = 0 \/ ~IsKind(L, f + 1, "id") THEN ExecFail(d)
       ELSE IF ~HasTable(d, name) \/ \E x \in targets : ~HasTable(d, x) THEN ExecFail(d)
       ELSE IF CountPlaceholders(L) # Len(params) THEN ExecFail(d)
       ELSE IF ~probe.ok THEN ExecFail(d)
       ELSE IF \E i \in DOMAIN sat : ~sat[i].ok THEN ExecFail(d)
       ELSE IF g # 0 /\ ~IsKind(L, g + 1, "id") THEN ExecFail(d)
       ELSE IF \E k \in DOMAIN keys : keys[k].col \notin Range_(t.cols) THEN ExecFail(d)
       ELSE IF limit.k = "str" \/ offset.k # "num" THEN ExecFail(d)
       ELSE ExecOk(d, IF limit.k = "null" \/ limit.n < 0 THEN sorted
                      ELSE Slice(sorted, offset.n, limit.n), 0)
ExecSelect(d, L, params) ==
    LET f == PosSym(L, "FROM", 1)
        name == L[f + 1].v
        w == PosSym(L, "WHERE", 1)
    IN SelectWhere(d, L, params, f, name, w,
                   EvalRows(L, w + 1, params, name, d.tables[name].rows, d.tables[name].cols))

\* db.prepare(sql) followed by run or all: the statement is read from its
\* characters; a statement the backend cannot read or execute fails and
\* changes nothing.
Execute(d, sql, params) ==
    LET L == Lex(Text(sql), 1)
    IN IF L = <<>> \/ \E i \in DOMAIN L : L[i].t = "bad" THEN ExecFail(d)
       ELSE IF IsSym(L, 1, "CREATE TABLE IF NOT EXISTS") THEN ExecCreateTable(d, L)
       ELSE IF IsSym(L, 1, "DROP TABLE IF EXISTS") THEN ExecDropTable(d, L)
       ELSE IF IsSym(L, 1, "CREATE") THEN ExecCreateIndex(d, L)
       ELSE IF IsSym(L, 1, "DROP INDEX IF EXISTS") THEN ExecDropIndex(d, L)
       ELSE IF IsSym(L, 1, "INSERT INTO") THEN ExecInsert(d, L, params)
       ELSE IF IsSym(L, 1, "UPDATE") THEN ExecUpdate(d, L, params)
       ELSE IF IsSym(L, 1, "DELETE FROM") THEN ExecDelete(d, L, params)
       ELSE IF IsSym(L, 1, "SELECT") THEN ExecSelect(d, L, params)
       ELSE ExecFail(d)

----------------------------------------------------------------------------
(* The instance: one backend connection, and the calls made on it.         *)

NewConnection == [data |-> EmptyDb, inTransaction |-> FALSE, saved |-> EmptyDb]

\* The instance right after construction, before any call.
Idle ==
    /\ db = NewConnection
    /\ frames = <<>>
    /\ executed = <<>>
    /\ pre = NewConnection
    /\ alt = [kind |-> "pending"]

\* One statement reaching the backend through db.prepare: BEGIN, COMMIT and
\* ROLLBACK act on the connection's transaction, the rest on its data.
Backend(conn, sql, params) ==
    LET L == Lex(Text(sql), 1)
        Refused == [ok |-> FALSE, conn |-> conn, rows |-> <<>>, changes |-> 0]
        Applied(r) ==
            [ok |-> r.ok, rows |-> r.rows, changes |-> r.changes,
             conn |-> [conn EXCEPT !.data = r.db]]
    IN IF L = <<[t |-> "sym", v |-> <<"BEGIN">>]>>
       THEN IF conn.inTransaction THEN Refused
            ELSE [ok |-> TRUE, rows |-> <<>>, changes |-> 0,
                  conn |-> [conn EXCEPT !.inTransaction = TRUE, !.saved = conn.data]]
       ELSE IF L = <<[t |-> "sym", v |-> <<"COMMIT">>]>>
       THEN IF ~conn.inTransaction THEN Refused
            ELSE [ok |-> TRUE, rows |-> <<>>, changes |-> 0,
                  conn |-> [conn EXCEPT !.inTransaction = FALSE, !.saved = EmptyDb]]
       ELSE IF L = <<[t |-> "sym", v |-> <<"ROLLBACK">>]>>
       THEN IF ~conn.inTransaction THEN Refused
            ELSE [ok |-> TRUE, rows |-> <<>>, changes |-> 0,
                  conn |-> [data |-> conn.saved, inTransaction |-> FALSE, saved |-> EmptyDb]]
       ELSE Applied(Execute(conn.data, sql, params))

\* The record of one statement handed to the backend.
Statement(sql, params, ok) == [sql |-> sql, params |-> params, ok |-> ok]

\* The outcome of a call: resolved with a value, or rejected with an error.
Returned(ack, err, rows, count) ==
    [kind |-> "returned", ack |-> ack, err |-> err, rows |-> rows, count |-> count]
Threw(err) == [kind |-> "threw", ack |-> FALSE, err |-> err, rows |-> <<>>, count |-> 0]

\* The variables after a call c that resolved or rejected with r, left the
\* backend as conn and handed the statements ex to it.
Done(c, r, conn, ex) ==
    /\ call' = c
    /\ result' = r
    /\ pre' = db
    /\ db' = conn
    /\ executed' = ex
    /\ UNCHANGED <<frames, alt>>

\* run(sql, params): never throws; a failure comes back as an error object.
run(conn, sql, params) == Backend(conn, sql, params)

\* create, drop, createIndex, dropIndex on the connection conn (this.db),
\* once the statement st is built: run the statement and acknowledge; run
\* does not throw, so the catch clause is never entered.
Ddl(conn, c, st) ==
    LET Ran(r) ==
            Done(c, Returned(TRUE, NoError, <<>>, 0), r.conn,
                 <<Statement(st.sql, st.params, r.ok)>>)
    IN IF ~Ok(st) THEN Done(c, Threw(st.err), conn, <<>>)
       ELSE Ran(run(conn, st.sql, st.params))

create(table, columns) ==
    Ddl(db, [op |-> "create", table |-> table, columns |-> columns],
        CreateStatement(table, columns))

drop(table) == Ddl(db, [op |-> "drop", table |-> table], DropStatement(table))

createIndex(table, fields, unique, name) ==
    Ddl(db, [op |-> "createIndex", table |-> table, fields |-> fields, unique |-> unique,
         name |-> name],
        CreateIndexStatement(table, fields, unique, name))

dropIndex(indexName) ==
    Ddl(db, [op |-> "dropIndex", indexName |-> indexName], DropIndexStatement(indexName))

\* A write whose catch clause returns the error object even while a
\* transaction is open.
Dml_never_throws(c, st, r, ex, message) ==
    IF r.ok THEN Done(c, Returned(TRUE, NoError, <<>>, r.changes), r.conn, ex)
    ELSE Done(c, Returned(FALSE, QueryError(message, st.sql), <<>>, 0), r.conn, ex)

\* The end of insert, update, delete and upsert: acknowledge, or on a
\* backend failure throw inside a transaction and return the error outside.
Dml(c, st, r, ex, message) ==
    IF r.ok THEN Done(c, Returned(TRUE, NoError, <<>>, r.changes), r.conn, ex)
    ELSE IF r.conn.inTransaction
    THEN Done(c, Threw(QueryError(message, st.sql)), r.conn, ex)
    ELSE Done(c, Returned(FALSE, QueryError(message, st.sql), <<>>, 0), r.conn, ex)

\* insertMany: stmt.run for every item with the item's own values, inside
\* one backend transaction (a savepoint when a transaction is open): the
\* first failure undoes the items already inserted.
RECURSIVE insertMany(_, _, _, _)
insertMany(conn, sql, items, count) ==
    LET Item(r) ==
            IF ~r.ok THEN [ok |-> FALSE, conn |-> conn, rows |-> <<>>, changes |-> 0]
            ELSE insertMany(r.conn, sql, Tail(items),
                            count + (IF r.changes > 0 THEN 1 ELSE 0))
    IN IF items = <<>> THEN [ok |-> TRUE, conn |-> conn, rows |-> <<>>, changes |-> count]
       ELSE Item(Backend(conn, sql, Values(Head(items))))

\* insert once the statement st is built.
Inserted(conn, c, st, table, items) ==
    LET Ran(r) ==
            Dml(c, st, r, [i \in DOMAIN items |-> Statement(st.sql, Values(items[i]), r.ok)],
                "Insert query failed")
        Contained(many) == Ran(IF many.ok THEN many ELSE [many EXCEPT !.conn = conn])
    IN IF table = <<>> THEN Done(c, Threw(st.err), conn, <<>>)
       ELSE IF _validateIdentifier(table, "table name").kind # "none"
       THEN Done(c, Threw(st.err), conn, <<>>)
       ELSE IF Len(items) = 0 THEN Done(c, Returned(TRUE, NoError, <<>>, 0), conn, <<>>)
       ELSE IF ~Ok(st) THEN Done(c, Threw(st.err), conn, <<>>)
       ELSE Contained(insertMany(conn, st.sql, items, 0))
insert(table, items) ==
    Inserted(db, [op |-> "insert", table |-> table, items |-> items],
             InsertStatement(table, items), table, items)

\* update, delete and upsert once the statement st is built: throw what the
\* builder threw, or run the statement.
Write(conn, c, st, message) ==
    LET Ran(r) == Dml(c, st, r, <<Statement(st.sql, st.params, r.ok)>>, message)
    IN IF ~Ok(st) THEN Done(c, Threw(st.err), conn, <<>>)
       ELSE Ran(run(conn, st.sql, st.params))

Write_before_where(conn, c, st, all) ==
    LET Ran(r) ==
            IF ~Ok(st)
            THEN Done(c, Threw(st.err), r.conn, <<Statement(all.sql, all.params, r.ok)>>)
            ELSE Dml(c, st, r, <<Statement(st.sql, st.params, r.ok)>>, "Update query failed")
    IN IF ~Ok(all) THEN Done(c, Threw(all.err), conn, <<>>)
       ELSE Ran(run(conn, IF Ok(st) THEN st.sql ELSE all.sql,
                    IF Ok(st) THEN st.params ELSE all.params))
update_before_where(table, doc, query) ==
    Write_before_where(db, [op |-> "update", table |-> table, doc |-> doc, query |-> query],
                       UpdateStatement(table, doc, query),
                       UpdateStatement(table, doc, [keys |-> <<>>, body |-> [x \in {} |-> 0]]))
update(table, doc, query) ==
    Write(db, [op |-> "update", table |-> table, doc |-> doc, query |-> query],
          UpdateStatement(table, doc, query), "Update query failed")

delete(table, query) ==
    Write(db, [op |-> "delete", table |-> table, query |-> query],
          DeleteStatement(table, query), "Delete query failed")

upsert(table, doc, conflictKeys) ==
    Write(db, [op |-> "upsert", table |-> table, doc |-> doc, conflictKeys |-> conflictKeys],
          UpsertStatement(table, doc, conflictKeys), "Upsert query failed")

\* A search or aggregate whose catch clause rethrows the backend's failure.
Read_rethrows(conn, c, st) ==
    LET Ran(r) ==
            IF r.ok
            THEN Done(c, Returned(TRUE, NoError, r.rows, 0), r.conn,
                      <<Statement(st.sql, st.params, r.ok)>>)
            ELSE Done(c, Threw(QueryError("Search query failed", st.sql)), r.conn,
                      <<Statement(st.sql, st.params, r.ok)>>)
    IN IF ~Ok(st) THEN Done(c, Threw(st.err), conn, <<>>)
       ELSE Ran(Backend(conn, st.sql, st.params))
\* The end of search and aggregate: the rows, or no rows when the backend
\* failed.
Read(conn, c, st) ==
    LET Ran(r) ==
            Done(c, Returned(TRUE, NoError, IF r.ok THEN r.rows ELSE <<>>, 0), r.conn,
                 <<Statement(st.sql, st.params, r.ok)>>)
    IN IF ~Ok(st) THEN Done(c, Threw(st.err), conn, <<>>)
       ELSE Ran(Backend(conn, st.sql, st.params))

aggregate(table, dslQuery) ==
    Read(db, [op |-> "aggregate", table |-> table, dslQuery |-> dslQuery],
         AggregateStatement(table, dslQuery))

search(table, dslQuery) ==
    Read(db, [op |-> "search", table |-> table, dslQuery |-> dslQuery],
         SearchStatement(table, dslQuery))

BEGIN == K(<<"BEGIN">>)
COMMIT == K(<<"COMMIT">>)
ROLLBACK == K(<<"ROLLBACK">>)

\* The variables after a call or a step of transaction(callback) that ran
\* one transaction statement with outcome r and left the open transaction()
\* calls as stack.
Stepped(c, res, sql, r, stack) ==
    /\ frames' = stack
    /\ call' = c
    /\ result' = res
    /\ pre' = db
    /\ db' = r.conn
    /\ executed' = <<Statement(sql, <<>>, r.ok)>>
    /\ UNCHANGED alt

\* transaction(callback) up to the call of the callback: run('BEGIN').
transaction_begin ==
    /\ Len(frames) < MaxDepth
    /\ Stepped([op |-> "transaction", step |-> "begin", before |-> db.data],
               [kind |-> "pending"], BEGIN, run(db, BEGIN, <<>>),
               Append(frames, [before |-> db.data]))

\* The callback of the innermost transaction() completed: run('COMMIT').
transaction_commit ==
    /\ frames # <<>>
    /\ Stepped([op |-> "transaction", step |-> "commit",
                before |-> frames[Len(frames)].before],
               Returned(TRUE, NoError, <<>>, 0), COMMIT, run(db, COMMIT, <<>>),
               SubSeq(frames, 1, Len(frames) - 1))

\* The callback of the innermost transaction() threw: run('ROLLBACK'), then
\* throw the query error.
transaction_rollback ==
    /\ frames # <<>>
    /\ Stepped([op |-> "transaction", step |-> "rollback",
                before |-> frames[Len(frames)].before],
               Threw(QueryError("Transaction failed and was rolled back", <<>>)),
               ROLLBACK, run(db, ROLLBACK, <<>>),
               SubSeq(frames, 1, Len(frames) - 1))

\* beginTransaction, commit, rollback: run the statement and acknowledge.
Manual(op, sql) ==
    Stepped([op |-> op], Returned(TRUE, NoError, <<>>, 0), sql, run(db, sql, <<>>), frames)

beginTransaction == Manual("beginTransaction", BEGIN)
commit == Manual("commit", COMMIT)
rollback == Manual("rollback", ROLLBACK)

----------------------------------------------------------------------------
(* Clause objects of the requests *)

Term(f, v) == [keys |-> <<"term">>, body |-> [term |-> [field |-> f, value |-> v]]]
Terms(f, vs) == [keys |-> <<"terms">>, body |-> [terms |-> [field |-> f, values |-> vs]]]
Match(f, q) == [keys |-> <<"match">>, body |-> [match |-> [field |-> f, query |-> q]]]
MatchPhrase(f, q) ==
    [keys |-> <<"match_phrase">>, body |-> [match_phrase |-> [field |-> f, query |-> q]]]
MultiMatch(q, fs) ==
    [keys |-> <<"multi_match">>, body |-> [multi_match |-> [query |-> q, fields |-> fs]]]
Exists(f) == [keys |-> <<"exists">>, body |-> [exists |-> [field |-> f]]]
Range(f, ops) == [keys |-> <<"range">>, body |-> [range |-> [field |-> f, ops |-> ops]]]
Bool(must, filter, should, must_not) ==
    [keys |-> <<"bool">>,
     body |-> [bool |-> [must |-> must, filter |-> filter,
                         should |-> should, must_not |-> must_not]]]
Unsupported == [keys |-> <<"fuzzy">>, body |-> [fuzzy |-> [field |-> <<"a">>]]]

----------------------------------------------------------------------------
(* Specification of the clause compiler on its own: a clause tree is drawn, *)
(* then compiled.                                                           *)

fa == <<"a">>
fb == <<"b">>
fbad == <<"a", ";">>

\* The clauses placed in the lists of the bool clauses under study.
Leaves ==
    { Term(fa, Num(1)),
      Term(fb, Str(<<"x">>)),
      Term(fbad, Num(1)),
      Terms(fa, <<>>),
      Terms(fa, <<Num(1), Num(2)>>),
      Match(fb, Str(<<"x", " ", "y">>)),
      MatchPhrase(fb, Str(<<"x", "y">>)),
      MultiMatch(Str(<<"y">>), <<fa, fb>>),
      Exists(fb),
      Range(fa, <<[op |-> "gt", value |-> Num(1)], [op |-> "ne", value |-> Num(5)],
                  [op |-> "lte", value |-> Num(2)]>>),
      Unsupported,
      Bool(<<>>, <<>>, <<Term(fa, Num(2)), Exists(fb)>>, <<>>),
      Bool(<<Term(fa, Num(1))>>, <<>>, <<>>, <<Match(fb, Str(<<"y">>))>>) }

Slots == {"must", "filter", "should", "must_not"}

\* The clauses of a placement that sit in one slot, in order.
RECURSIVE InSlot(_, _)
InSlot(p, slot) ==
    IF p = <<>> THEN <<>>
    ELSE (IF Head(p)[1] = slot THEN <<Head(p)[2]>> ELSE <<>>) \o InSlot(Tail(p), slot)

BoolFrom(p) ==
    Bool(InSlot(p, "must"), InSlot(p, "filter"), InSlot(p, "should"), InSlot(p, "must_not"))

CompileQueries ==
    Leaves \cup {BoolFrom(p) : p \in UNION {[1..k -> Slots \X Leaves] : k \in 0..MaxClauses}}

\* The rows the compiled predicates are read in (table t, columns a and b).
tt == <<"t">>
Row(a, b) == [c \in {fa, fb} |-> IF c = fa THEN a ELSE b]
Rows == { Row(Num(1), Str(<<"x">>)), Row(Num(2), Str(<<"x", "y">>)),
          Row(Num(2), Null), Row(Null, Str(<<"y">>)) }

InitCompile ==
    /\ call \in [op : {"compile"}, query : CompileQueries]
    /\ result = [kind |-> "pending"]
    /\ Idle

Compile ==
    /\ call.op = "compile"
    /\ result = [kind |-> "pending"]
    /\ result' = _parseQuery(call.query)
    /\ UNCHANGED <<call, db, frames, executed, pre, alt>>

NextCompile == Compile

SpecCompile == InitCompile /\ [][NextCompile]_vars

Compiled == call.op = "compile" /\ result # [kind |-> "pending"]
IsBool(q) == "bool" \in DOMAIN q.body

\* The truth value of a compiled clause in a row.
Sat(r, row) == EvalWhere(Text(r.sql), r.params, tt, row)

\* Clause objects that carry two keys, in either key order.
Merge(c, d) ==
    [keys |-> c.keys \o d.keys,
     body |-> [t \in DOMAIN c.body \cup DOMAIN d.body |->
                 IF t \in DOMAIN c.body THEN c.body[t] ELSE d.body[t]]]
TagLeaves ==
    Leaves \cup {Exists(fbad), Range(fbad, <<[op |-> "gt", value |-> Num(1)]>>)}
TaggedQueries ==
    {Merge(p[1], p[2]) :
        p \in {pair \in TagLeaves \X TagLeaves : DOMAIN pair[1].body \cap DOMAIN pair[2].body = {}}}

InitDispatch ==
    /\ call \in [op : {"compile"}, query : TaggedQueries]
    /\ result = [kind |-> "pending"]
    /\ Idle

SpecDispatch == InitDispatch /\ [][NextCompile]_vars

\* Query texts of match and multi_match clauses: words of x and y with
\* blanks and tabs between them.
MaxTextLen == 3
TextAlphabet == {"x", "y", " ", "\t"}
QueryTexts == UNION {[1..n -> TextAlphabet] : n \in 0..MaxTextLen}
MatchQueries ==
    {Match(f, Str(t)) : f \in {fb, fbad}, t \in QueryTexts}
        \cup {Match(fa, Num(1)), Match(fa, Null)}
FieldLists == {<<>>, <<fa>>, <<fa, fb>>, <<fb, fa>>, <<fb, fbad>>}
MultiMatchQueries ==
    {MultiMatch(Str(t), fs) : t \in QueryTexts, fs \in FieldLists}
        \cup {MultiMatch(Num(1), <<fa, fb>>)}

InitMatch ==
    /\ call \in [op : {"compile"}, query : MatchQueries \cup MultiMatchQueries]
    /\ result = [kind |-> "pending"]
    /\ Idle

SpecMatch == InitMatch /\ [][NextCompile]_vars

----------------------------------------------------------------------------
(* Specification of the range compiler on its own: an operator mapping is  *)
(* drawn, then compiled.                                                   *)

\* Keys of the operator mapping of a range clause; every key has its own
\* bound.
RangeKeys == <<"gt", "gte", "lt", "lte", "ne", "toString">>
Bounds(keys) ==
    [i \in DOMAIN keys |->
       [op |-> keys[i],
        value |-> Num(CHOOSE n \in DOMAIN RangeKeys : RangeKeys[n] = keys[i])]]

\* Operator mappings: up to MaxOps distinct keys, in any order.
OpLists ==
    {Bounds(keys) : keys \in UNION {{f \in [1..n -> Range_(RangeKeys)] :
                                        \A i, j \in 1..n : f[i] = f[j] => i = j}
                                     : n \in 0..MaxOps}}

RangeQueries == {Range(x[1], x[2]) : x \in {fa, fbad} \X OpLists}

InitRange ==
    /\ call \in [op : {"compile"}, query : RangeQueries]
    /\ result = [kind |-> "pending"]
    /\ Idle

SpecRange == InitRange /\ [][NextCompile]_vars

----------------------------------------------------------------------------
(* Value shapes: what two requests have in common when they differ only in *)
(* the content of their values.                                            *)

\* A clause with its values blanked: term and range values, terms values
\* (their number is kept), match and multi_match text (the number of tokens
\* is kept; with strict, also whether a multi_match text is empty).
RECURSIVE Shape(_, _)
ShapeList(list, strict) == [i \in DOMAIN list |-> Shape(list[i], strict)]
ShapePayload(tag, p, strict) ==
    CASE tag = "term" -> [p EXCEPT !.value = Null]
      [] tag = "terms" -> [p EXCEPT !.values = [i \in DOMAIN p.values |-> Null]]
      [] tag = "match" -> [p EXCEPT !.query = Num(Len(Tokens(p.query)))]
      [] tag = "match_phrase" -> [p EXCEPT !.query = Null]
      [] tag = "multi_match" ->
            [p EXCEPT !.query = IF strict /\ String(p.query) = <<>> THEN Null
                                ELSE Num(Len(Tokens(p.query)))]
      [] tag = "range" -> [p EXCEPT !.ops = [i \in DOMAIN p.ops |-> [p.ops[i] EXCEPT !.value = Null]]]
      [] tag = "bool" -> [must |-> ShapeList(p.must, strict), filter |-> ShapeList(p.filter, strict),
                          should |-> ShapeList(p.should, strict),
                          must_not |-> ShapeList(p.must_not, strict)]
      [] OTHER -> p
Shape(q, strict) ==
    [keys |-> q.keys, body |-> [tag \in DOMAIN q.body |-> ShapePayload(tag, q.body[tag], strict)]]

DocShape(doc) == [i \in DOMAIN doc |-> [doc[i] EXCEPT !.v = Null]]

\* A request envelope with its values blanked: the clause values, size and
\* from (with strict, whether size is zero is kept).
DslShape(d, strict) ==
    [d EXCEPT !.query = ShapeList(d.query, strict),
              !.size = IF strict /\ Truthy(d.size) THEN <<1>> ELSE <<>>,
              !.from = <<>>]

----------------------------------------------------------------------------
(* The requests of the model *)

tbad == <<"t", "-">>
fqual == <<"t", ".", "a">>
fjson == <<"b", "-", ">", ">", "p">>
fjsonbad == <<"b", ";", "-", ">", "p">>
vx == Str(<<"x">>)
vy == Str(<<"y">>)
vz == Str(<<"z", "'">>)

Entry(k, v) == [k |-> k, v |-> v]

\* A call is made with a well-formed table name and any request, or with
\* an ill-formed or missing table name and one request.
BadTableNames == {tbad, <<>>}
Calls(requests, base) == ({tt} \X requests) \cup (BadTableNames \X {base})

GoodColumns == <<Entry(fa, <<"INTEGER", " ", "PRIMARY KEY">>), Entry(fb, <<"TEXT">>)>>
CreateRequests ==
    { GoodColumns,
      <<Entry(fa, <<"INTEGER">>), Entry(fbad, <<"TEXT">>)>>,
      <<>> }

GoodIndex == [fields |-> <<fb>>, unique |-> FALSE, name |-> <<>>]
IndexRequests ==
    { GoodIndex,
      [fields |-> <<fjson>>, unique |-> TRUE, name |-> <<"i", " ">>],
      [fields |-> <<fqual>>, unique |-> FALSE, name |-> <<>>],
      [fields |-> <<fbad>>, unique |-> FALSE, name |-> <<"i">>],
      [fields |-> <<>>, unique |-> FALSE, name |-> <<>>] }

IndexNames == {<<"i", "d", "x", "_", "t", "_", "b">>, <<"i", ";">>, <<>>}

GoodItem == <<Entry(fa, Num(1)), Entry(fb, vx)>>
InsertRequests ==
    { <<GoodItem>>,
      <<<<Entry(fa, Num(2)), Entry(fb, vy)>>>>,
      <<GoodItem, <<Entry(fa, Num(2)), Entry(fb, vy)>>>>,
      <<<<Entry(fa, Num(2)), Entry(fbad, vx)>>>>,
      <<>> }

GoodDoc == <<Entry(fb, vy)>>
Docs == { GoodDoc, <<Entry(fb, vz)>>, <<Entry(fbad, vy)>>, <<Entry(fjson, vy)>>, <<>> }

\* The clauses of update, delete, search and aggregate requests.
GoodClause == Term(fa, Num(1))
Clauses ==
    { GoodClause, Term(fa, Num(2)),
      Term(fbad, Num(1)),
      Terms(fa, <<Num(1), Num(2)>>),
      Terms(fbad, <<>>),
      Match(fb, Str(<<"x", " ", "y">>)), Match(fb, Str(<<"y", " ", "z">>)),
      MatchPhrase(fb, vx),
      MultiMatch(Str(<<>>), <<fb>>), MultiMatch(Str(<<" ">>), <<fb>>),
      MultiMatch(vx, <<fa, fb>>),
      Range(fa, <<[op |-> "gte", value |-> Num(1)], [op |-> "lt", value |-> Num(2)]>>),
      Range(fbad, <<[op |-> "ne", value |-> Num(1)]>>),
      Exists(fjson),
      Unsupported,
      Bool(<<Term(fqual, Num(1))>>, <<Exists(fb)>>, <<>>, <<Term(fb, vy)>>),
      Bool(<<Term(fa, Num(1))>>, <<>>, <<Term(fbad, Num(1))>>, <<>>),
      Bool(<<>>, <<>>, <<Term(fa, Num(1)), Term(fa, Num(2))>>, <<Exists(fbad)>>) }

UpdateRequests ==
    {[doc |-> GoodDoc, query |-> q] : q \in Clauses}
    \cup {[doc |-> d, query |-> GoodClause] : d \in Docs}

UpsertRequests ==
    { [doc |-> <<Entry(fa, Num(1)), Entry(fb, vy)>>, keys |-> <<fa>>],
      [doc |-> <<Entry(fa, Num(1)), Entry(fb, vy)>>, keys |-> <<fb>>],
      [doc |-> <<Entry(fa, Num(1))>>, keys |-> <<fa>>],
      [doc |-> <<Entry(fbad, Num(1))>>, keys |-> <<fa>>],
      [doc |-> GoodDoc, keys |-> <<fbad>>],
      [doc |-> GoodDoc, keys |-> <<>>] }

Plain == DslQuery(<<>>, <<>>, <<>>, <<>>, <<>>, <<>>, <<>>)

Sources ==
    { <<fa, <<"b", " ", "a", "s", " ", "c">>>>, <<fjson>>, <<<<"*">>>>,
      <<<<"b", " ", "A", "S", " ", "c", ";">>>>, <<fjsonbad>> }

Joins ==
    { <<JoinDef(<<>>, tt, TRUE, fqual, <<>>, fb)>>,
      <<JoinDef(<<"i", "n", "n", "e", "r">>, <<"u">>, TRUE, fa, <<"=">>, <<"u", ".", "a">>)>>,
      <<JoinDef(<<>>, tbad, TRUE, fa, <<>>, fb)>>,
      <<JoinDef(<<>>, tt, FALSE, <<>>, <<>>, <<>>)>>,
      <<JoinDef(<<>>, tt, TRUE, fa, <<>>, fbad)>> }

Sorts ==
    { <<[field |-> fa, dir |-> <<"d", "e", "s", "c">>]>>,
      <<[field |-> fb, dir |-> <<"u", "p">>], [field |-> fa, dir |-> <<"a", "s", "c">>]>>,
      <<[field |-> fbad, dir |-> <<"a", "s", "c">>]>> }

Pages == {<<1, 0>>, <<1, 1>>, <<2, 0>>, <<0, 0>>}

\* Search requests: the plain request with one part supplied at a time.
SearchRequests ==
    {Plain}
    \cup {[Plain EXCEPT !.query = <<q>>] : q \in Clauses}
    \cup {[Plain EXCEPT !.source = x] : x \in Sources}
    \cup {[Plain EXCEPT !.join = x] : x \in Joins}
    \cup {[Plain EXCEPT !.sort = x] : x \in Sorts}
    \cup {[Plain EXCEPT !.size = <<x[1]>>, !.from = <<x[2]>>] : x \in Pages}
    \cup {[Plain EXCEPT !.query = <<Term(fa, Num(2))>>, !.sort = x, !.size = <<1>>] : x \in Sorts}

AggsBlocks ==
    { Aggs(TRUE, <<fb>>, <<Metric(<<"n">>, "count", <<"*">>)>>),
      Aggs(FALSE, <<>>, <<Metric(<<"s">>, "sum", fa), Metric(<<"m">>, "median", fbad)>>),
      Aggs(FALSE, <<>>, <<Metric(<<"s", " ">>, "sum", fa)>>),
      Aggs(FALSE, <<>>, <<Metric(<<"s">>, "max", fbad)>>),
      Aggs(TRUE, <<fbad>>, <<>>),
      Aggs(FALSE, <<>>, <<Metric(<<"m">>, "median", fa)>>),
      Aggs(FALSE, <<>>, <<>>) }

BaseAgg == [Plain EXCEPT !.aggs = <<Aggs(TRUE, <<fb>>, <<Metric(<<"n">>, "count", <<"*">>)>>)>>]

AggregateRequests ==
    {Plain}
    \cup {[Plain EXCEPT !.aggs = <<x>>] : x \in AggsBlocks}
    \cup {[BaseAgg EXCEPT !.query = <<q>>] : q \in Clauses}
    \cup {[BaseAgg EXCEPT !.join = x] : x \in Joins}
    \cup {[BaseAgg EXCEPT !.sort = x] : x \in Sorts}
    \cup {[BaseAgg EXCEPT !.size = <<x>>] : x \in {0, 1, 2}}

RowCount(conn, table) ==
    IF HasTable(conn.data, table) THEN Len(conn.data.tables[table].rows) ELSE 0

\* The requests made of a live instance: some of each kind.
SomeClauses ==
    { GoodClause,
      Term(fbad, Num(1)),
      Terms(fbad, <<>>),
      Match(fb, Str(<<"x", " ", "y">>)),
      MultiMatch(Str(<<" ">>), <<fbad>>),
      Range(fbad, <<[op |-> "ne", value |-> Num(1)]>>),
      Unsupported,
      Bool(<<Term(fqual, Num(1))>>, <<Exists(fjson)>>, <<>>, <<Term(fb, vy)>>),
      Bool(<<Term(fa, Num(1))>>, <<>>, <<Term(fbad, Num(1))>>, <<>>) }

SomeUpdates ==
    {[doc |-> GoodDoc, query |-> q] : q \in SomeClauses}
    \cup {[doc |-> d, query |-> GoodClause] : d \in Docs \ {<<Entry(fb, vz)>>}}

SomeSearches ==
    {Plain}
    \cup {[Plain EXCEPT !.query = <<q>>] : q \in SomeClauses}
    \cup {[Plain EXCEPT !.source = x] : x \in Sources}
    \cup {[Plain EXCEPT !.join = x] : x \in Joins}
    \cup {[Plain EXCEPT !.sort = x] : x \in Sorts}
    \cup {[Plain EXCEPT !.size = <<x[1]>>, !.from = <<x[2]>>] : x \in {<<1, 1>>, <<0, 0>>}}

SomeAggregates ==
    {Plain}
    \cup {[Plain EXCEPT !.aggs = <<x>>] : x \in AggsBlocks}
    \cup {[BaseAgg EXCEPT !.query = <<q>>] : q \in {GoodClause, Terms(fbad, <<>>)}}
    \cup {[BaseAgg EXCEPT !.join = <<JoinDef(<<>>, tbad, TRUE, fa, <<>>, fb)>>]}
    \cup {[BaseAgg EXCEPT !.sort = <<[field |-> fbad, dir |-> <<"a", "s", "c">>]>>]}
    \cup {[BaseAgg EXCEPT !.size = <<1>>]}

----------------------------------------------------------------------------
(* Specification of the instance: calls of every method, one after the     *)
(* other, outside transactions.                                            *)

Init ==
    /\ Idle
    /\ call = [op |-> "new"]
    /\ result = [kind |-> "pending"]

DoCreate == \E x \in Calls(CreateRequests, GoodColumns) : create(x[1], x[2])
DoDrop == \E t \in {tt} \cup BadTableNames : drop(t)
DoCreateIndex ==
    \E x \in Calls(IndexRequests, GoodIndex) :
        createIndex(x[1], x[2].fields, x[2].unique, x[2].name)
DoDropIndex == \E n \in IndexNames : dropIndex(n)
DoInsert ==
    \E x \in Calls(InsertRequests, <<GoodItem>>) :
        /\ RowCount(db, x[1]) + Len(x[2]) <= MaxRows
        /\ insert(x[1], x[2])
DoUpdate ==
    \E x \in Calls(SomeUpdates, [doc |-> GoodDoc, query |-> GoodClause]) :
        update(x[1], x[2].doc, x[2].query)
DoDelete == \E x \in Calls(SomeClauses, GoodClause) : delete(x[1], x[2])
DoUpsert ==
    \E x \in Calls(UpsertRequests, [doc |-> GoodDoc, keys |-> <<fa>>]) :
        /\ RowCount(db, x[1]) < MaxRows
        /\ upsert(x[1], x[2].doc, x[2].keys)
DoSearch == \E x \in Calls(SomeSearches, Plain) : search(x[1], x[2])
DoAggregate == \E x \in Calls(SomeAggregates, BaseAgg) : aggregate(x[1], x[2])

Next ==
    \/ DoCreate
    \/ DoDrop
    \/ DoCreateIndex
    \/ DoDropIndex
    \/ DoInsert
    \/ DoUpdate
    \/ DoDelete
    \/ DoUpsert
    \/ DoSearch
    \/ DoAggregate

Spec == Init /\ [][Next]_vars

----------------------------------------------------------------------------
(* Specification of writes whose clause carries no recognized tag: a table  *)
(* is created and filled, then updated and emptied through such clauses.    *)

Wildcard == [keys |-> <<"wildcard">>, body |-> [wildcard |-> [field |-> fbad]]]
UntaggedClauses ==
    { Unsupported,
      Wildcard,
      Bool(<<Unsupported>>, <<>>, <<>>, <<>>),
      Bool(<<>>, <<>>, <<Wildcard, Term(fa, Num(1))>>, <<>>),
      Bool(<<>>, <<Bool(<<>>, <<>>, <<Unsupported>>, <<>>)>>, <<>>, <<>>),
      Bool(<<Term(fa, Num(1))>>, <<>>, <<>>, <<Unsupported>>),
      GoodClause }

UtCreate == create(tt, GoodColumns)
UtInsert ==
    \E item \in {GoodItem, <<Entry(fa, Num(2)), Entry(fb, vy)>>} :
        /\ RowCount(db, tt) < MaxRows
        /\ insert(tt, <<item>>)
UtUpdate ==
    \E q \in UntaggedClauses : \E doc \in {GoodDoc, <<Entry(fb, vx)>>} : update(tt, doc, q)
UtDelete == \E q \in UntaggedClauses : delete(tt, q)

NextUntagged ==
    \/ UtCreate
    \/ UtInsert
    \/ UtUpdate
    \/ UtDelete

SpecUntagged == Init /\ [][NextUntagged]_vars

----------------------------------------------------------------------------
(* Specification of join lowering on its own: a list of join descriptors   *)
(* is drawn, then lowered, alone and inside a search and an aggregate.     *)

MaxJoins == 2
tu == <<"u">>
fua == <<"u", ".", "a">>
JoinDefs ==
    { JoinDef(<<>>, tu, TRUE, fa, <<>>, fua),
      JoinDef(<<"i", "n", "n", "e", "r">>, tu, TRUE, fa, <<"=">>, fua),
      JoinDef(<<"R", "I", "G", "H", "T">>, tu, TRUE, fqual, <<"<">>, fua),
      JoinDef(<<"f", "u", "l", "l">>, tt, TRUE, fa, <<">", "=">>, fb),
      JoinDef(<<"c", "r", "o", "s", "s">>, tu, TRUE, fa, <<>>, fua),
      JoinDef(<<>>, tu, TRUE, fa, <<"=", "1", ";">>, fua),
      JoinDef(<<>>, tu, FALSE, <<>>, <<>>, <<>>),
      JoinDef(<<>>, tu, TRUE, <<>>, <<>>, fua),
      JoinDef(<<"i", "n", "n", "e", "r">>, tu, TRUE, fa, <<"=">>, <<>>),
      JoinDef(<<>>, tbad, TRUE, fa, <<>>, fua),
      JoinDef(<<>>, tbad, FALSE, <<>>, <<>>, <<>>),
      JoinDef(<<>>, tu, TRUE, fbad, <<>>, fua) }
JoinLists == UNION {[1..n -> JoinDefs] : n \in 0..MaxJoins}

InitJoin ==
    /\ call \in [op : {"join"}, join : JoinLists]
    /\ result = [kind |-> "pending"]
    /\ Idle

LowerJoin ==
    /\ call.op = "join"
    /\ result = [kind |-> "pending"]
    /\ result' = _parseJoin(call.join)
    /\ alt' = [search |-> SearchStatement(tt, [Plain EXCEPT !.join = call.join]),
               aggregate |-> AggregateStatement(tt, [BaseAgg EXCEPT !.join = call.join])]
    /\ UNCHANGED <<call, db, frames, executed, pre>>

NextJoin == LowerJoin

SpecJoin == InitJoin /\ [][NextJoin]_vars

JoinLowered == call.op = "join" /\ result # [kind |-> "pending"]

----------------------------------------------------------------------------
(* Specification of sort lowering on its own: a sort list is drawn, then   *)
(* lowered.                                                                *)

MaxSorts == 2
Directions ==
    { <<"a", "s", "c">>, <<"d", "e", "s", "c">>, <<"A", "S", "C">>, <<"D", "E", "S", "C">>,
      <<"D", "e", "s", "c">>, <<"u", "p">>, <<"d", "e", "s", "c", " ">>, <<"1">>, <<>> }
SortEntries ==
    {[field |-> f, dir |-> d] : f \in {fa, fqual}, d \in Directions}
        \cup {[field |-> fbad, dir |-> <<"a", "s", "c">>]}
SortLists == UNION {[1..n -> SortEntries] : n \in 0..MaxSorts}

InitSort ==
    /\ call \in [op : {"sort"}, sort : SortLists]
    /\ result = [kind |-> "pending"]
    /\ Idle

LowerSort ==
    /\ call.op = "sort"
    /\ result = [kind |-> "pending"]
    /\ result' = _parseSort(call.sort)
    /\ UNCHANGED <<call, db, frames, executed, pre, alt>>

NextSort == LowerSort

SpecSort == InitSort /\ [][NextSort]_vars

SortLowered == call.op = "sort" /\ result # [kind |-> "pending"]

----------------------------------------------------------------------------
(* Specification of bulk inserts: a table of two integer columns is        *)
(* created, then lists of items are inserted, the keys of each item in     *)
(* either order.                                                           *)

NumColumns == <<Entry(fa, <<"INTEGER", " ", "PRIMARY KEY">>), Entry(fb, <<"INTEGER">>)>>
BulkItems ==
    UNION {{<<Entry(fa, Num(a)), Entry(fb, Num(b))>>, <<Entry(fb, Num(b)), Entry(fa, Num(a))>>} :
              a \in 1..2, b \in 5..6}
BulkLists == UNION {[1..n -> BulkItems] : n \in 1..MaxRows}

BkCreate == create(tt, NumColumns)
BkInsert ==
    \E items \in BulkLists :
        /\ RowCount(db, tt) + Len(items) <= MaxRows
        /\ insert(tt, items)
BkDelete == delete(tt, Unsupported)

NextBulk ==
    \/ BkCreate
    \/ BkInsert
    \/ BkDelete

SpecBulk == Init /\ [][NextBulk]_vars

----------------------------------------------------------------------------
(* Specification of the instance with transactions: transaction(callback), *)
(* whose callback calls the instance, completes or throws at any point,    *)
(* and the manual beginTransaction, commit and rollback.                   *)

TxCreate == create(tt, GoodColumns)
TxInsert ==
    /\ RowCount(db, tt) < MaxRows
    /\ insert(tt, <<GoodItem>>)
TxDelete == delete(tt, GoodClause)
TxSearch == search(tt, Plain)

NextTx ==
    \/ TxCreate
    \/ TxInsert
    \/ TxDelete
    \/ TxSearch
    \/ transaction_begin
    \/ transaction_commit
    \/ transaction_rollback
    \/ beginTransaction
    \/ commit
    \/ rollback

SpecTx == Init /\ [][NextTx]_vars

\* The same calls without beginTransaction, commit and rollback: the only
\* transactions are those of transaction(callback), nested up to MaxDepth.
NextNested ==
    \/ TxCreate
    \/ TxInsert
    \/ TxDelete
    \/ TxSearch
    \/ transaction_begin
    \/ transaction_commit
    \/ transaction_rollback

SpecNested == Init /\ [][NextNested]_vars

\* Two callers of one instance: the first works inside transaction(), the
\* second inserts a document of its own, outside any transaction() of its
\* own, whenever the first is suspended.
OtherItem == <<Entry(fa, Num(2)), Entry(fb, vy)>>
OtherInsert ==
    /\ RowCount(db, tt) < MaxRows
    /\ insert(tt, <<OtherItem>>)

NextShared ==
    \/ TxCreate
    \/ TxInsert
    \/ OtherInsert
    \/ transaction_begin
    \/ transaction_commit
    \/ transaction_rollback

SpecShared == Init /\ [][NextShared]_vars

----------------------------------------------------------------------------
(* Specification of paging: a table with up to MaxStored documents, read   *)
(* page after page by search with one query, one sort and one page size.   *)

StoredItem(n) == <<Entry(fa, Num(n)), Entry(fb, IF n % 2 = 1 THEN vx ELSE vy)>>

\* The documents of the table, in every insertion order.
StoredLists ==
    UNION {{[i \in 1..n |-> StoredItem(f[i])] :
              f \in {g \in [1..n -> 1..MaxStored] : \A i, j \in 1..n : g[i] = g[j] => i = j}} :
           n \in 0..MaxStored}

\* The connection after create(tt, GoodColumns) and insert(tt, items).
Stored(created, inserting, items) ==
    IF items = <<>> THEN Backend(NewConnection, created.sql, created.params).conn
    ELSE insertMany(Backend(NewConnection, created.sql, created.params).conn,
                    inserting.sql, items, 0).conn

Asc == <<"a", "s", "c">>
Desc == <<"d", "e", "s", "c">>
\* Sorts that order the documents totally: a is the primary key.
PageSorts ==
    { <<[field |-> fa, dir |-> Desc]>>,
      <<[field |-> fb, dir |-> Asc], [field |-> fa, dir |-> Asc]>>,
      <<[field |-> fb, dir |-> Desc], [field |-> fa, dir |-> Desc]>> }
PageQueries == {<<>>, <<Term(fb, vx)>>}

PageRequest(query, sort, size, from) ==
    [Plain EXCEPT !.query = query, !.sort = sort, !.size = <<size>>, !.from = <<from>>]

InitPages ==
    /\ \E items \in StoredLists :
          db = Stored(CreateStatement(tt, GoodColumns),
                      InsertStatement(tt, <<StoredItem(1)>>), items)
    /\ frames = <<>>
    /\ executed = <<>>
    /\ pre = NewConnection
    /\ alt = [kind |-> "pending"]
    /\ call = [op |-> "new"]
    /\ result = [kind |-> "pending"]

\* search with from = 0.
FirstPage ==
    /\ call.op = "new"
    /\ \E q \in PageQueries, sort \in PageSorts, s \in 1..MaxPage :
          search(tt, PageRequest(q, sort, s, 0))

\* search again with from advanced by size, until a page comes back empty.
NextPage ==
    /\ call.op = "search"
    /\ result.rows # <<>>
    /\ search(tt, [call.dslQuery EXCEPT !.from = <<call.dslQuery.from[1] + call.dslQuery.size[1]>>])

NextPages ==
    \/ FirstPage
    \/ NextPage

SpecPages == InitPages /\ [][NextPages]_vars

----------------------------------------------------------------------------
(* Specification of the statement builders on their own: the statement a   *)
(* method builds from a request, next to the statement it builds from a    *)
(* request with the same value shape.                                      *)

UpdatePairs ==
    { x \in UpdateRequests \X UpdateRequests :
        /\ DocShape(x[1].doc) = DocShape(x[2].doc)
        /\ Shape(x[1].query, FALSE) = Shape(x[2].query, FALSE) }
DeletePairs == { x \in Clauses \X Clauses : Shape(x[1], FALSE) = Shape(x[2], FALSE) }
SearchPairs ==
    { x \in SearchRequests \X SearchRequests : DslShape(x[1], FALSE) = DslShape(x[2], FALSE) }
AggregatePairs ==
    { x \in AggregateRequests \X AggregateRequests :
        DslShape(x[1], FALSE) = DslShape(x[2], FALSE) }

\* The statement a method builds before it reaches the backend.
StatementOf(method, table, request) ==
    CASE method = "create" -> CreateStatement(table, request)
      [] method = "drop" -> DropStatement(table)
      [] method = "createIndex" ->
            CreateIndexStatement(table, request.fields, request.unique, request.name)
      [] method = "dropIndex" -> DropIndexStatement(request)
      [] method = "insert" -> InsertStatement(table, request)
      [] method = "update" -> UpdateStatement(table, request.doc, request.query)
      [] method = "delete" -> DeleteStatement(table, request)
      [] method = "upsert" -> UpsertStatement(table, request.doc, request.keys)
      [] method = "search" -> SearchStatement(table, request)
      [] method = "aggregate" -> AggregateStatement(table, request)

BuildCall(method, table, request, variant) ==
    [op |-> "build", method |-> method, table |-> table, request |-> request,
     variant |-> variant]

InitBuild ==
    /\ Idle
    /\ result = [kind |-> "pending"]
    /\ \/ \E x \in Calls(CreateRequests, GoodColumns) : call = BuildCall("create", x[1], x[2], x[2])
       \/ \E t \in {tt} \cup BadTableNames : call = BuildCall("drop", t, <<>>, <<>>)
       \/ \E x \in Calls(IndexRequests, GoodIndex) :
             call = BuildCall("createIndex", x[1], x[2], x[2])
       \/ \E n \in IndexNames : call = BuildCall("dropIndex", <<>>, n, n)
       \/ \E x \in Calls(InsertRequests \ {<<>>}, <<GoodItem>>) :
             call = BuildCall("insert", x[1], x[2], x[2])
       \/ \E x \in Calls(UpsertRequests, [doc |-> GoodDoc, keys |-> <<fa>>]) :
             call = BuildCall("upsert", x[1], x[2], x[2])
       \/ \E x \in UpdatePairs : call = BuildCall("update", tt, x[1], x[2])
       \/ \E x \in DeletePairs : call = BuildCall("delete", tt, x[1], x[2])
       \/ \E x \in SearchPairs : call = BuildCall("search", tt, x[1], x[2])
       \/ \E x \in AggregatePairs : call = BuildCall("aggregate", tt, x[1], x[2])
       \/ \E t \in BadTableNames :
             \/ call = BuildCall("update", t, [doc |-> GoodDoc, query |-> GoodClause],
                                 [doc |-> GoodDoc, query |-> GoodClause])
             \/ call = BuildCall("delete", t, GoodClause, GoodClause)
             \/ call = BuildCall("search", t, Plain, Plain)
             \/ call = BuildCall("aggregate", t, BaseAgg, BaseAgg)

Build ==
    /\ call.op = "build"
    /\ result = [kind |-> "pending"]
    /\ result' = StatementOf(call.method, call.table, call.request)
    /\ alt' = StatementOf(call.method, call.table, call.variant)
    /\ UNCHANGED <<call, db, frames, executed, pre>>

NextBuild == Build

SpecBuild == InitBuild /\ [][NextBuild]_vars

Built == call.op = "build" /\ alt # [kind |-> "pending"]

----------------------------------------------------------------------------
(* Specification of parameter binding: the statements of search, aggregate, *)
(* update and delete built from every clause tree of the compiler's         *)
(* specification, and from a term on a JSON path that holds a quote.        *)

\* b->'||?||'
fpath == <<"b", "-", ">", "'", "|", "|", "?", "|", "|", "'">>
ParamClauses == CompileQueries \cup {Term(fpath, Num(3))}
ParamDoc == <<Entry(fb, vy), Entry(fa, Num(7))>>

InitParams ==
    /\ Idle
    /\ result = [kind |-> "pending"]
    /\ \E q \in ParamClauses :
          \/ \E x \in {[Plain EXCEPT !.query = <<q>>],
                        [Plain EXCEPT !.query = <<q>>, !.size = <<2>>, !.from = <<1>>]} :
                call = BuildCall("search", tt, x, x)
          \/ \E x \in {[BaseAgg EXCEPT !.query = <<q>>],
                        [BaseAgg EXCEPT !.query = <<q>>, !.size = <<2>>]} :
                call = BuildCall("aggregate", tt, x, x)
          \/ call = BuildCall("update", tt, [doc |-> ParamDoc, query |-> q],
                              [doc |-> ParamDoc, query |-> q])
          \/ call = BuildCall("delete", tt, q, q)

SpecParams == InitParams /\ [][NextBuild]_vars

----------------------------------------------------------------------------
(* Specification of the identifier validator on its own *)

IdAlphabet == {"a", "Z", "9", "_", ";", "'", " ", "-", "."}
Contexts == {"table name", "column name"}

InitValidate ==
    /\ call \in [op : {"validate"}, identifier : TextsUpTo(IdAlphabet, MaxIdLen),
                 context : Contexts]
    /\ result = [kind |-> "pending"]
    /\ Idle

Validate ==
    /\ call.op = "validate"
    /\ result.kind = "pending"
    /\ result' = _validateIdentifier(call.identifier, call.context)
    /\ UNCHANGED <<call, db, frames, executed, pre, alt>>

NextValidate == Validate

SpecValidate == InitValidate /\ [][NextValidate]_vars

----------------------------------------------------------------------------
(* Specification of field reference lowering: one call of _quoteField on   *)
(* each text of up to MaxFieldLen characters.                              *)

FieldAlphabet == {"a", "-", ">", ".", "'", " "}

InitField ==
    /\ call \in [op : {"quoteField"}, field : TextsUpTo(FieldAlphabet, MaxFieldLen)]
    /\ result = [kind |-> "pending"]
    /\ Idle

QuoteField ==
    /\ call.op = "quoteField"
    /\ result = [kind |-> "pending"]
    /\ result' = _quoteField(call.field)
    /\ UNCHANGED <<call, db, frames, executed, pre, alt>>

NextField == QuoteField

SpecField == InitField /\ [][NextField]_vars

----------------------------------------------------------------------------
(* Values stay out of the SQL text.                                        *)

ReadsAndWrites == {"search", "aggregate", "update", "delete"}

\* Two requests of one method have the same value shape: they differ at
\* most in the content of their values. With strict, an empty multi_match
\* text and a zero aggregate size are part of the shape.
SameShape(method, r, v, strict) ==
    CASE method = "update" ->
            DocShape(r.doc) = DocShape(v.doc) /\ Shape(r.query, strict) = Shape(v.query, strict)
      [] method = "delete" -> Shape(r, strict) = Shape(v, strict)
      [] method = "search" ->
            [DslShape(r, strict) EXCEPT !.size = <<>>] = [DslShape(v, strict) EXCEPT !.size = <<>>]
      [] method = "aggregate" -> DslShape(r, strict) = DslShape(v, strict)
      [] OTHER -> r = v

NoValueInText(sql) == \A i \in DOMAIN sql : sql[i].src # "value"

----------------------------------------------------------------------------
(* Identifiers reach the SQL text validated and back-quoted.               *)

\* Position i of a text lies between an opening back-quote and its closing
\* one.
InQuotes(sql, i) == Cardinality({j \in 1..(i - 1) : sql[j].s = BQ}) % 2 = 1

WellQuoted(sql) ==
    \A i \in DOMAIN sql :
        /\ sql[i].src = "ident" => InQuotes(sql, i) /\ SafeClass(sql[i].s)
        /\ (InQuotes(sql, i) /\ sql[i].s # BQ) => sql[i].src = "ident"
        /\ (sql[i].s = BQ /\ ~InQuotes(sql, i)) => i < Len(sql) /\ sql[i + 1].s # BQ

\* C2: in every statement a method hands to the backend, every character
\* that comes from a table name, a column or field path segment, a join
\* target, an index name, a metric alias or a projection alias lies inside
\* back-quotes, and what the back-quotes enclose is a non-empty text of
\* letters, digits and underscores taken from such a name.
C2_IdentifiersQuoted == \A k \in DOMAIN executed : WellQuoted(executed[k].sql)

\* A search with a join, whose table, join target and dotted field segments
\* are all in the text, reached the backend.
C2_Witness ==
    /\ call.op = "search"
    /\ call.dslQuery.join = <<JoinDef(<<>>, tt, TRUE, fqual, <<>>, fb)>>
    /\ Len(executed) = 1
    /\ Cardinality({i \in DOMAIN executed[1].sql : executed[1].sql[i].src = "ident"}) = 5

----------------------------------------------------------------------------
(* A validation failure leaves the database alone.                         *)

Validating ==
    {"create", "createIndex", "insert", "update", "delete", "upsert", "search", "aggregate"}

ThrewValidation == result.kind = "threw" /\ result.err.kind = "validation"

\* C4: when create, createIndex, insert, update, delete, upsert, search or
\* aggregate throws a validation error, the call handed no statement to the
\* backend and the tables, rows and indexes are those of before the call.
C4_ValidationBeforeExecution ==
    (call.op \in Validating /\ ThrewValidation) => executed = <<>> /\ db = pre

\* An update of a table with a row, with a valid document and a query on an
\* ill-formed field, threw.
C4_Witness ==
    /\ call.op = "update"
    /\ call.doc = GoodDoc
    /\ call.query = Term(fbad, Num(1))
    /\ ThrewValidation
    /\ RowCount(pre, tt) > 0
    /\ db = pre

----------------------------------------------------------------------------
(* Ill-formed identifiers in a request.                                    *)

\* The field references of a clause, at any depth.
RECURSIVE ClauseFields(_)
ClauseFieldsOf(tag, p) ==
    CASE tag = "bool" ->
            UNION {ClauseFields((p.must \o p.filter \o p.should \o p.must_not)[i]) :
                     i \in 1..(Len(p.must) + Len(p.filter) + Len(p.should) + Len(p.must_not))}
      [] tag = "multi_match" -> {p.fields[i] : i \in DOMAIN p.fields}
      [] OTHER -> {p.field}
ClauseFields(q) == UNION {ClauseFieldsOf(tag, q.body[tag]) : tag \in DOMAIN q.body}

\* The field references of a search or aggregate envelope outside its
\* projection: query, join, sort, group_by and metric fields.
EnvelopeFields(d) ==
    UNION {ClauseFields(d.query[i]) : i \in DOMAIN d.query}
    \cup UNION {{d.join[i].left, d.join[i].right} : i \in DOMAIN d.join}
    \cup {d.sort[i].field : i \in DOMAIN d.sort}
    \cup UNION {{d.aggs[i].group_by[j] : j \in DOMAIN d.aggs[i].group_by}
                  \cup {d.aggs[i].metrics[j].field : j \in DOMAIN d.aggs[i].metrics}
                : i \in DOMAIN d.aggs}

RequestFields(c) ==
    CASE c.op = "update" -> ClauseFields(c.query) \cup {c.doc[i].k : i \in DOMAIN c.doc}
      [] c.op = "delete" -> ClauseFields(c.query)
      [] c.op \in {"search", "aggregate"} -> EnvelopeFields(c.dslQuery)
      [] OTHER -> {}

\* C5, as stated: a search, aggregate, update or delete call whose request
\* carries a field reference that field lowering rejects throws a
\* validation error.
C5_InvalidIdentifierRaises ==
    (/\ call.op \in ReadsAndWrites
     /\ \E f \in RequestFields(call) : ~Ok(_quoteField(f))) => ThrewValidation

----------------------------------------------------------------------------
(* transaction(callback)                                                   *)

\* C6, as stated: when the callback of transaction() throws, the tables and
\* rows are those of before transaction() was called and transaction()
\* rejects with a query error; when the callback completes, its changes are
\* committed: no transaction is left open that could undo them.
C6_TransactionAllOrNothing ==
    /\ (call.op = "transaction" /\ call.step = "rollback") =>
          /\ db.data = call.before
          /\ result.kind = "threw"
          /\ result.err.kind = "query"
    /\ (call.op = "transaction" /\ call.step = "commit") =>
          /\ result.kind = "returned"
          /\ ~db.inTransaction

----------------------------------------------------------------------------
(* The identifier rule                                                    *)

OnlySafeCharacters(s) ==
    \A i \in 1..Len(s) : s[i] \in Lower \cup Upper \cup Digits \cup {"_"}

\* C3: identifier validation succeeds exactly for the non-empty strings
\* made only of ASCII letters, digits and underscore; every other string
\* (the empty one included) is rejected with a validation error that names
\* the offending string and the context label.
C3_ValidationExact ==
    (call.op = "validate" /\ result.kind # "pending") =>
        IF call.identifier # <<>> /\ OnlySafeCharacters(call.identifier)
        THEN result.kind = "none"
        ELSE /\ result.kind = "validation"
             /\ result.identifier = call.identifier
             /\ result.context = call.context

\* An identifier with a dash between two safe characters was rejected.
C3_Witness ==
    /\ call.op = "validate"
    /\ call.identifier = <<"a", "-", "Z">>
    /\ result.kind = "validation"

----------------------------------------------------------------------------
(* should next to must or filter                                           *)

WithoutShould(q) == Bool(q.body.bool.must, q.body.bool.filter, <<>>, q.body.bool.must_not)
MustAndShould(q) ==
    /\ IsBool(q)
    /\ q.body.bool.must \o q.body.bool.filter # <<>>
    /\ q.body.bool.should # <<>>

\* C7, as stated: a bool clause with must or filter populated and should
\* populated has the same outcome as the same clause without its should
\* list: same SQL fragment, same parameters, and an error in one exactly
\* when there is an error in the other.
C7_ShouldIgnored_Original ==
    (Compiled /\ MustAndShould(call.query)) =>
        result = _parseQuery(WithoutShould(call.query))

ShouldCompiles(q) ==
    \A i \in DOMAIN q.body.bool.should : Ok(_parseQuery(q.body.bool.should[i]))

\* C7, amended: the outcomes are the same whenever every should child
\* compiles; when a should child raises a validation error the bool clause
\* raises a validation error too, whatever the clause without should does.
C7_ShouldIgnored ==
    (Compiled /\ MustAndShould(call.query)) =>
        IF ShouldCompiles(call.query)
        THEN result = _parseQuery(WithoutShould(call.query))
        ELSE result.err.kind = "validation"

\* A clause with one must child and one should child compiled to the must
\* child alone.
C7_Witness ==
    /\ Compiled
    /\ call.query = Bool(<<Term(fa, Num(1))>>, <<>>, <<Term(fb, Str(<<"x">>))>>, <<>>)
    /\ Ok(result)
    /\ Len(result.params) = 1

----------------------------------------------------------------------------
(* should alone                                                           *)

OnlyShould(q) ==
    /\ IsBool(q)
    /\ q.body.bool.must = <<>> /\ q.body.bool.filter = <<>> /\ q.body.bool.must_not = <<>>
    /\ q.body.bool.should # <<>>

ChildResults(list) == [i \in DOMAIN list |-> _parseQuery(list[i])]

\* C8: a bool clause with only should populated compiles to the
\* disjunction of its children: a row satisfies the compiled predicate
\* exactly when it satisfies at least one child, and the parameters are the
\* children's parameters concatenated in input order.
C8_ShouldIsDisjunction ==
    (Compiled /\ OnlyShould(call.query) /\ Ok(result)) =>
        LET children == ChildResults(call.query.body.bool.should)
        IN /\ result.params = Flatten([i \in DOMAIN children |-> children[i].params])
           /\ \A row \in Rows :
                 (Sat(result, row) = "T") <=>
                     (\E i \in DOMAIN children : Sat(children[i], row) = "T")

\* Two should children: a row matching the first is selected, a row
\* matching neither is not.
C8_Witness ==
    /\ Compiled
    /\ call.query = Bool(<<>>, <<>>, <<Term(fa, Num(1)), Term(fb, Str(<<"x">>))>>, <<>>)
    /\ Sat(result, Row(Num(1), Str(<<"x">>))) = "T"
    /\ Sat(result, Row(Num(2), Null)) # "T"
    /\ result.params = <<Num(1), Str(<<"x">>)>>

----------------------------------------------------------------------------
(* must_not                                                               *)

PositiveGroup(q) ==
    IF q.body.bool.must \o q.body.bool.filter # <<>>
    THEN q.body.bool.must \o q.body.bool.filter
    ELSE q.body.bool.should
PositiveIsAnd(q) == q.body.bool.must \o q.body.bool.filter # <<>>

\* C9: in every bool clause each must_not child is AND-ed in as the
\* negation of the child, whether the positive group came from must and
\* filter, from should, or is absent: a row satisfies the compiled bool
\* exactly when it satisfies the positive group (if any) and every must_not
\* child is false in it, and the must_not parameters follow the positive
\* group's parameters in input order.
C9_MustNotNegated ==
    (Compiled /\ IsBool(call.query) /\ call.query.body.bool.must_not # <<>> /\ Ok(result)) =>
        LET pos == ChildResults(PositiveGroup(call.query))
            neg == ChildResults(call.query.body.bool.must_not)
            posSat(row) ==
                IF pos = <<>> THEN TRUE
                ELSE IF PositiveIsAnd(call.query)
                THEN \A i \in DOMAIN pos : Sat(pos[i], row) = "T"
                ELSE \E i \in DOMAIN pos : Sat(pos[i], row) = "T"
        IN /\ result.params = Flatten([i \in DOMAIN pos |-> pos[i].params])
                                 \o Flatten([i \in DOMAIN neg |-> neg[i].params])
           /\ \A row \in Rows :
                 (Sat(result, row) = "T") <=>
                     (posSat(row) /\ \A i \in DOMAIN neg : Sat(neg[i], row) = "F")

\* A should child that holds in a row and a must_not child that holds in it
\* too: the row is not selected.
C9_Witness ==
    /\ Compiled
    /\ call.query = Bool(<<>>, <<>>, <<Term(fa, Num(1))>>, <<Exists(fb)>>)
    /\ Ok(result)
    /\ Sat(result, Row(Num(1), Str(<<"x">>))) = "F"

----------------------------------------------------------------------------
(* terms with no values                                                   *)

IsEmptyTerms(q) ==
    /\ Tags \cap DOMAIN q.body = {"terms"}
    /\ q.body.terms.values = <<>>

\* C10: a terms clause with an empty value list compiles to a predicate
\* that is false in every row, with no parameters; a bool clause whose must
\* or filter list contains it matches no row, whatever its other children
\* are.
C10_EmptyTermsMatchesNothing ==
    Compiled =>
        /\ IsEmptyTerms(call.query) =>
              /\ Ok(result) /\ result.params = <<>>
              /\ \A row \in Rows : Sat(result, row) = "F"
        /\ (/\ IsBool(call.query) /\ Ok(result)
            /\ \E i \in DOMAIN (call.query.body.bool.must \o call.query.body.bool.filter) :
                  IsEmptyTerms((call.query.body.bool.must \o call.query.body.bool.filter)[i]))
              => \A row \in Rows : Sat(result, row) # "T"

\* A bool clause with an empty terms clause in must, next to a should child
\* that holds in the row.
C10_Witness ==
    /\ Compiled
    /\ call.query = Bool(<<Terms(fa, <<>>)>>, <<>>, <<Exists(fb)>>, <<>>)
    /\ Ok(result)
    /\ Sat(result, Row(Num(1), Str(<<"x">>))) = "F"

----------------------------------------------------------------------------
(* range                                                                  *)

IsRange(q) == Tags \cap DOMAIN q.body = {"range"}

RangeSymbol(op) ==
    CASE op = "gt" -> ">" [] op = "gte" -> ">=" [] op = "lt" -> "<" [] op = "lte" -> "<="

Recognized(ops) == SelectSeq(ops, LAMBDA e : e.op \in {"gt", "gte", "lt", "lte"})

\* C11, as stated: a range clause emits one comparison 'field symbol ?' for
\* each key of its operator mapping that is one of gt, gte, lt, lte, in
\* input order, AND-ed together, with the bounds as the parameters in that
\* order; every other key contributes no SQL and no parameter and is not an
\* error; with no recognized key the clause compiles to 1=1 with no
\* parameters.
C11_RangeComparisons ==
    (Compiled /\ IsRange(call.query)) =>
        LET p == call.query.body.range
            rec == Recognized(p.ops)
            field == _quoteField(p.field)
        IN IF rec = <<>> THEN result = Res(TRUE_SQL, <<>>)
           ELSE Ok(field) =>
                  /\ Ok(result)
                  /\ result.params = [i \in DOMAIN rec |-> rec[i].value]
                  /\ Text(result.sql) =
                        <<"(">> \o JoinSql([i \in DOMAIN rec |->
                                             Text(field.sql) \o <<" ", RangeSymbol(rec[i].op), " ", "?">>],
                                          <<" ", "AND", " ">>) \o <<")">>

----------------------------------------------------------------------------
(* C12: a backend failure of search or aggregate is an empty result *)

IsRead == call.op \in {"search", "aggregate"}
BackendFailed == \E k \in DOMAIN executed : ~executed[k].ok

\* C12: a search or aggregate whose statement the backend fails to execute
\* does not throw: it resolves to the empty list, the very outcome of a
\* query that matched no rows, and leaves the data as it was; the only
\* failures search and aggregate throw are Validation failures, raised
\* before anything is executed.
C12_ReadFailureIsEmpty ==
    IsRead =>
        /\ BackendFailed => result = Returned(TRUE, NoError, <<>>, 0) /\ db = pre
        /\ result.kind = "threw" => result.err.kind = "validation" /\ executed = <<>>

\* A search or an aggregate was refused by the backend (the table is
\* missing, say) and resolved to no rows.
C12_Witness ==
    /\ IsRead
    /\ BackendFailed
    /\ result.kind = "returned"
    /\ result.rows = <<>>

----------------------------------------------------------------------------
(* C13: a backend failure of a write is returned, or thrown in a transaction *)

IsWrite == call.op \in {"insert", "update", "delete", "upsert"}

\* C13: when the backend rejects the statement of an insert, update, delete
\* or upsert, the call is never acknowledged; the error is a Query error
\* carrying the text of the rejected statement; the call resolves to
\* {acknowledged: false, error} when the connection has no open transaction
\* and throws the error when it has one.
C13_WriteFailureSurfaces ==
    (IsWrite /\ BackendFailed) =>
        /\ ~result.ack
        /\ result.err.kind = "query"
        /\ result.err.sql = executed[1].sql
        /\ result.kind = (IF pre.inTransaction THEN "threw" ELSE "returned")
        /\ db.inTransaction = pre.inTransaction

\* An insert was rejected (its key is already present) while a transaction
\* was open, and threw the Query error.
C13_Witness ==
    /\ call.op = "insert"
    /\ BackendFailed
    /\ pre.inTransaction
    /\ result.kind = "threw"
    /\ result.err.kind = "query"

----------------------------------------------------------------------------
(* C14: the statement of search *)

\* The page size and the offset a request asks for: the supplied number,
\* or 10 and 0 when none is supplied.
RequestedSize(d) == IF d.size # <<>> THEN d.size[1] ELSE 10
RequestedFrom(d) == IF d.from # <<>> THEN d.from[1] ELSE 0

\* The text of the search statement around its parts.
SearchText(table, selectSql, joinSql, where, orderBy) ==
    <<"SELECT", " ">> \o Text(selectSql.sql) \o <<" ", "FROM", " ">>
        \o Text(BackQuoted(table)) \o <<" ">> \o Text(joinSql.sql)
        \o <<" ", "WHERE", " ">> \o Text(where.sql) \o <<" ">> \o Text(orderBy.sql)
        \o <<" ", "LIMIT", " ", "?", " ", "OFFSET", " ", "?">>

\* C14, as stated: a search that passes validation executes exactly one
\* statement, SELECT <projection> FROM <table> <joins> WHERE <clause or
\* 1=1> <order-by> LIMIT ? OFFSET ?, whose parameters are the clause's
\* parameters, then the page size, then the offset; the page size is the
\* request's size whenever one is supplied and 10 otherwise, the offset is
\* the request's from whenever one is supplied and 0 otherwise.
C14_SearchStatement ==
    (call.op = "search" /\ result.kind = "returned") =>
        LET d == call.dslQuery
            where == WhereOf(d)
        IN /\ Len(executed) = 1
           /\ Text(executed[1].sql) =
                  SearchText(call.table, _parseSource(d.source), _parseJoin(d.join), where,
                             _parseSort(d.sort))
           /\ executed[1].params =
                  where.params \o <<Num(RequestedSize(d)), Num(RequestedFrom(d))>>

----------------------------------------------------------------------------
(* C15: pages are consecutive slices of the sorted result *)

\* The whole sorted result of the request d on the connection conn: what
\* the statement returns with a page as large as the table and no offset.
FullResult(conn, d) ==
    LET Rows_(st) == Backend(conn, st.sql, st.params).rows
    IN Rows_(SearchStatement(tt, [d EXCEPT !.size = <<RowCount(conn, tt) + 1>>, !.from = <<>>]))

Min(a, b) == IF a < b THEN a ELSE b

\* C15: with one query and one sort that orders the matching rows totally,
\* the page read with (size = s, from = k * s), s >= 1, is the k-th run of
\* s rows of the sorted result (shorter or empty at its end), so that the
\* pages k = 0, 1, 2, ... are disjoint, consecutive and together the whole
\* sorted result.
C15_PagesAreSlices ==
    (call.op = "search" /\ result.kind = "returned") =>
        LET s == call.dslQuery.size[1]
            from == call.dslQuery.from[1]
            Page(full) ==
                /\ from % s = 0
                /\ result.rows = SubSeq(full, from + 1, Min(from + s, Len(full)))
                /\ \A i, j \in DOMAIN full : full[i] = full[j] => i = j
        IN Page(FullResult(pre, call.dslQuery))

\* Three rows read with page size 2: the second page has the one row left.
C15_Witness ==
    /\ call.op = "search"
    /\ RowCount(db, tt) = 3
    /\ call.dslQuery.size = <<2>>
    /\ call.dslQuery.from = <<2>>
    /\ Len(result.rows) = 1

----------------------------------------------------------------------------
(* C16: the projection of aggregate *)

IsAggregate == call.op = "aggregate" /\ call.table = tt /\ call.dslQuery.aggs # <<>>

GroupColumns(aggs) == IF aggs.hasGroupBy THEN aggs.group_by ELSE <<>>
RecognizedMetrics(aggs) ==
    SelectSeq(aggs.metrics, LAMBDA m : m.op \in {"sum", "avg", "count", "min", "max"})
DroppedMetrics(aggs) ==
    SelectSeq(aggs.metrics, LAMBDA m : m.op \notin {"sum", "avg", "count", "min", "max"})

\* The request without the metrics whose operator is unrecognized.
WithoutDropped(d) ==
    [d EXCEPT !.aggs = <<[d.aggs[1] EXCEPT !.metrics = RecognizedMetrics(d.aggs[1])]>>]

OperatorName(op) ==
    CASE op = "sum" -> "SUM" [] op = "avg" -> "AVG" [] op = "count" -> "COUNT"
      [] op = "min" -> "MIN" [] op = "max" -> "MAX"

\* The projection: the group_by columns, then the recognized metrics.
Projection(aggs) ==
    JoinSql([i \in DOMAIN GroupColumns(aggs) |-> Text(_quoteField(GroupColumns(aggs)[i]).sql)]
                \o [i \in DOMAIN RecognizedMetrics(aggs) |->
                       LET m == RecognizedMetrics(aggs)[i]
                       IN <<OperatorName(m.op), "(">>
                              \o (IF m.field = <<"*">> THEN <<"*">>
                                  ELSE Text(_quoteField(m.field).sql))
                              \o <<")", " ", "as", " ">> \o Text(BackQuoted(m.name))],
            <<",", " ">>)

StartsWith(text, prefix) ==
    Len(prefix) <= Len(text) /\ SubSeq(text, 1, Len(prefix)) = prefix

\* C16: an aggregate whose group_by columns and recognized metrics (sum,
\* avg, count, min, max) are together empty throws a Validation failure and
\* executes nothing; a metric with another operator, its alias being a
\* well-formed identifier, is dropped: the call ends as the call without
\* that metric ends, with the same statement; the statement's projection
\* is the group_by columns in input order, then the recognized metrics in
\* input order.
C16_AggregateProjection ==
    IsAggregate =>
        LET aggs == call.dslQuery.aggs[1]
            kept == AggregateStatement(tt, WithoutDropped(call.dslQuery))
        IN /\ (GroupColumns(aggs) = <<>> /\ RecognizedMetrics(aggs) = <<>>) =>
                  ThrewValidation /\ executed = <<>> /\ db = pre
           /\ (\A i \in DOMAIN DroppedMetrics(aggs) :
                   _validateIdentifier(DroppedMetrics(aggs)[i].name, "metric alias").kind = "none")
                 => IF Ok(kept)
                    THEN /\ result.kind = "returned"
                         /\ Len(executed) = 1
                         /\ executed[1].sql = kept.sql
                         /\ executed[1].params = kept.params
                    ELSE result = Threw(kept.err) /\ executed = <<>>
           /\ result.kind = "returned" =>
                  StartsWith(Text(executed[1].sql),
                             <<"SELECT", " ">> \o Projection(aggs) \o <<" ", "FROM", " ">>)

\* An aggregate with a sum and a metric of unknown operator resolved: its
\* one statement projects the sum alone.
C16_Witness ==
    /\ IsAggregate
    /\ DroppedMetrics(call.dslQuery.aggs[1]) # <<>>
    /\ RecognizedMetrics(call.dslQuery.aggs[1]) # <<>>
    /\ result.kind = "returned"
    /\ Len(executed) = 1

----------------------------------------------------------------------------
(* C17: the path of a JSON accessor *)

\* The characters of the statement text that come from the JSON path.
PathOf(sql) == Text(SelectSeq(sql, LAMBDA piece : piece.src = "path"))

FieldLowered == call.op = "quoteField" /\ "kind" \notin DOMAIN result

\* C17, as stated: a field reference with a JSON accessor that is accepted
\* lowers to the back-quoted column, the accessor and one string literal
\* '$.<path>' whose path holds only identifier characters and dots, so
\* that the literal ends at the quote the code writes after the path.
C17_JsonPathRestricted ==
    (FieldLowered /\ HasArrow(call.field) /\ Ok(result)) =>
        LET text == Text(result.sql)
            path == PathOf(result.sql)
            opening == CHOOSE i \in DOMAIN text : text[i] = "'" /\ \A j \in 1..(i - 1) : text[j] # "'"
        IN /\ \A i \in DOMAIN path : path[i] = "." \/ OnlySafeCharacters(<<path[i]>>)
           /\ Cardinality({i \in DOMAIN text : text[i] = "'"}) = 2
           /\ text[Len(text)] = "'"
           /\ SubSeq(text, opening + 1, Len(text) - 1) = <<"$", ".">> \o path

----------------------------------------------------------------------------
(* C18: a nested transaction() *)

OuterRolledBack == call.op = "transaction" /\ call.step = "rollback" /\ frames = <<>>

\* C18, as stated: with transaction() the only source of transactions,
\* nested calls included, when the callback of the outermost transaction()
\* throws, the tables and rows are those of before that call: what the
\* callback and the transaction() calls inside it changed is rolled back.
C18_NestedKeepsOuter == OuterRolledBack => db.data = call.before

----------------------------------------------------------------------------
(* C19: a write of another caller during a transaction *)

HasDocument(conn, item) ==
    /\ HasTable(conn.data, tt)
    /\ \E i \in DOMAIN conn.data.tables[tt].rows :
          \A k \in DOMAIN item : conn.data.tables[tt].rows[i][item[k].k] = item[k].v

\* C19, as stated: the document the second caller inserted, acknowledged,
\* outside any transaction() of its own is still in the table after the
\* first caller's transaction() rolled back.
C19_OtherCallerWriteStays ==
    (call.op = "transaction" /\ call.step = "rollback") =>
        (HasDocument(pre, OtherItem) => HasDocument(db, OtherItem))

----------------------------------------------------------------------------
(* C20: acknowledgements *)

Acknowledging ==
    call.op \in {"create", "drop", "createIndex", "dropIndex",
                 "beginTransaction", "commit", "rollback"}

\* C20, as stated: create, drop, createIndex, dropIndex, beginTransaction,
\* commit and rollback acknowledge exactly when the backend executed their
\* statement, and report a Query error otherwise; transaction() resolves
\* (committed: true) only if its COMMIT was executed.
C20_AckOnlyIfExecuted ==
    /\ (Acknowledging /\ result.kind = "returned" /\ executed # <<>>) =>
          /\ result.ack <=> executed[1].ok
          /\ ~executed[1].ok => result.err.kind = "query"
    /\ (call.op = "transaction" /\ call.step = "commit" /\ result.kind = "returned") =>
          executed[1].ok

----------------------------------------------------------------------------
(* C21: placeholders and parameters *)

\* The values a clause tree supplies, clause by clause from left to right:
\* in a bool the must and filter children, else the should children, then
\* the must_not children.
RECURSIVE SuppliedValues(_)
SuppliedList(list) == Flatten([i \in DOMAIN list |-> SuppliedValues(list[i])])
SuppliedByBool(b) ==
    (IF b.must \o b.filter # <<>> THEN SuppliedList(b.must \o b.filter)
     ELSE SuppliedList(b.should))
    \o SuppliedList(b.must_not)
SuppliedValues(q) ==
    LET has(tag) == tag \in DOMAIN q.body
        tokens(text) == SelectSeq(Split(String(text), " "), LAMBDA t : t # <<>>)
        likes(text) == [i \in DOMAIN tokens(text) |-> Like(tokens(text)[i])]
    IN IF has("bool") THEN SuppliedByBool(q.body.bool)
       ELSE IF has("match") THEN likes(q.body.match.query)
       ELSE IF has("match_phrase") THEN <<Like(String(q.body.match_phrase.query))>>
       ELSE IF has("multi_match")
       THEN IF String(q.body.multi_match.query) = <<>> THEN <<>>
            ELSE Flatten([i \in DOMAIN q.body.multi_match.fields |->
                            likes(q.body.multi_match.query)])
       ELSE IF has("exists") THEN <<>>
       ELSE IF has("term") THEN <<q.body.term.value>>
       ELSE IF has("terms") THEN q.body.terms.values
       ELSE IF has("range")
       THEN LET ops == SelectSeq(q.body.range.ops,
                                 LAMBDA e : e.op \in {"gt", "gte", "lt", "lte"})
            IN [i \in DOMAIN ops |-> ops[i].value]
       ELSE <<>>

\* The values a request supplies to its statement, in the statement's order.
SuppliedTo(method, request) ==
    LET where(d) == IF d.query = <<>> THEN <<>> ELSE SuppliedValues(d.query[1])
    IN CASE method = "update" -> Values(request.doc) \o SuppliedValues(request.query)
         [] method = "delete" -> SuppliedValues(request)
         [] method = "search" ->
               where(request)
                  \o <<Num(IF request.size = <<>> THEN 10 ELSE request.size[1]),
                       Num(IF request.from = <<>> THEN 0 ELSE request.from[1])>>
         [] method = "aggregate" ->
               where(request) \o (IF request.size = <<>> THEN <<>>
                                  ELSE <<Num(request.size[1])>>)

\* C21, as stated: in every statement search, aggregate, update and delete
\* build, the placeholders the backend reads in the text are as many as the
\* parameters, and the parameters are the values the request supplies, in
\* the left-to-right order of the clauses that emit the placeholders: SET
\* values, then the clause tree's values, then LIMIT and OFFSET.
C21_PlaceholdersMatchParams ==
    (Built /\ Ok(result)) =>
        /\ CountPlaceholders(Lex(Text(result.sql), 1)) = Len(result.params)
        /\ result.params = SuppliedTo(call.method, call.request)

----------------------------------------------------------------------------
(* Grouping of compiled fragments                                         *)

\* Rows whose two fields both hold a value.
FullRows == {Row(Num(n), Str(t)) : n \in 1..2, t \in {<<"x">>, <<"x", "y">>, <<"y">>}}

\* The reference reading of a clause tree in a row: a bool clause is the
\* AND of must and filter, else the OR of should, AND NOT of each must_not,
\* and true without children; any other clause is read from its own
\* compiled fragment.
RECURSIVE Holds(_, _)
Holds(q, row) ==
    IF ~IsBool(q) THEN Sat(_parseQuery(q), row) = "T"
    ELSE LET b == q.body.bool
             pos == b.must \o b.filter
         IN /\ IF pos # <<>> THEN \A i \in DOMAIN pos : Holds(pos[i], row)
               ELSE IF b.should # <<>> THEN \E i \in DOMAIN b.should : Holds(b.should[i], row)
               ELSE TRUE
            /\ \A i \in DOMAIN b.must_not : ~Holds(b.must_not[i], row)

IsJoiner(piece) == piece.src = "code" /\ piece.s \in {"AND", "OR"}
OpenAfter(sql, j) ==
    Cardinality({k \in 1..j : sql[k] = [s |-> "(", src |-> "code"]})
        - Cardinality({k \in 1..j : sql[k] = [s |-> ")", src |-> "code"]})
\* The fragment is one parenthesised group: the parenthesis opened first
\* is closed by the last piece and not before.
Wrapped(sql) ==
    /\ sql[1] = [s |-> "(", src |-> "code"]
    /\ sql[Len(sql)] = [s |-> ")", src |-> "code"]
    /\ \A j \in 1..(Len(sql) - 1) : OpenAfter(sql, j) > 0
    /\ OpenAfter(sql, Len(sql)) = 0

\* C22: every compiled fragment that joins sub-predicates with AND or OR
\* is wrapped in parentheses, and for every clause tree and every row whose
\* fields hold values the compiled predicate has the truth value of the
\* reference reading of the tree.
C22_GroupingPreserved ==
    (Compiled /\ Ok(result)) =>
        /\ (\E j \in DOMAIN result.sql : IsJoiner(result.sql[j])) => Wrapped(result.sql)
        /\ \A row \in FullRows :
              /\ Sat(result, row) \in {"T", "F"}
              /\ (Sat(result, row) = "T") <=> Holds(call.query, row)

\* A range (an AND group) in must and an OR group of should children under
\* must_not: the row within the range is rejected because it satisfies the
\* OR group, whichever of its children holds.
C22_Witness ==
    /\ Compiled
    /\ call.query =
          BoolFrom(<<<<"must", Range(fa, <<[op |-> "gt", value |-> Num(1)],
                                            [op |-> "ne", value |-> Num(5)],
                                            [op |-> "lte", value |-> Num(2)]>>)>>,
                     <<"must_not", Bool(<<>>, <<>>, <<Term(fa, Num(2)), Exists(fb)>>, <<>>)>>>>)
    /\ Ok(result)
    /\ Wrapped(result.sql)
    /\ Sat(result, Row(Num(2), Str(<<"x">>))) = "F"
    /\ ~Holds(call.query, Row(Num(2), Str(<<"x">>)))

----------------------------------------------------------------------------
(* Clause objects with several tags                                       *)

TagOrder ==
    <<"bool", "match", "match_phrase", "multi_match", "exists", "term", "terms", "range">>
\* The first tag of the fixed order that the object carries.
Honored(q) ==
    TagOrder[CHOOSE i \in DOMAIN TagOrder :
                /\ TagOrder[i] \in DOMAIN q.body
                /\ \A j \in 1..(i - 1) : TagOrder[j] \notin DOMAIN q.body]
\* The object reduced to one of its keys.
Single(q, tag) == [keys |-> <<tag>>, body |-> [t \in {tag} |-> q.body[t]]]
Swapped(q) == [q EXCEPT !.keys = <<q.keys[2], q.keys[1]>>]

\* C23: a clause object with more than one tag key compiles exactly as
\* the object reduced to the first of its tags in the order bool, match,
\* match_phrase, multi_match, exists, term, terms, range: the same SQL, the
\* same parameters, the same validation outcome, whatever the order of the
\* keys in the object.
C23_FirstTagHonored ==
    (Compiled /\ Cardinality(Tags \cap DOMAIN call.query.body) > 1) =>
        /\ result = _parseQuery(Single(call.query, Honored(call.query)))
        /\ result = _parseQuery(Swapped(call.query))

\* A term on an ill-formed field written before a match: the match is
\* compiled and the term's field is not validated.
C23_Witness ==
    /\ Compiled
    /\ call.query = Merge(Term(fbad, Num(1)), Match(fb, Str(<<"x", " ", "y">>)))
    /\ Ok(result)
    /\ result.params = <<Like(<<"x">>), Like(<<"y">>)>>

----------------------------------------------------------------------------
(* match                                                                  *)

Blank == {" ", "\t", "\n"}
\* The maximal runs of characters other than whitespace, in order.
RECURSIVE Scan(_, _)
Scan(text, word) ==
    IF text = <<>> THEN (IF word = <<>> THEN <<>> ELSE <<word>>)
    ELSE IF Head(text) \in Blank
    THEN (IF word = <<>> THEN <<>> ELSE <<word>>) \o Scan(Tail(text), <<>>)
    ELSE Scan(Tail(text), Append(word, Head(text)))
WsTokens(text) == Scan(text, <<>>)

Lexeme(t, v) == [t |-> t, v |-> v]
\* The lexemes of  <field> LIKE ? AND ... AND <field> LIKE ?  without the
\* parentheses, one comparison per token.
LikeChain(field, n) ==
    Flatten([i \in 1..n |->
               (IF i > 1 THEN <<Lexeme("sym", <<"AND">>)>> ELSE <<>>)
               \o <<Lexeme("id", field), Lexeme("sym", <<"LIKE">>), Lexeme("sym", <<"?">>)>>])
InParens(lexemes) == <<Lexeme("sym", <<"(">>)>> \o lexemes \o <<Lexeme("sym", <<")">>)>>

IsMatch(q) == Tags \cap DOMAIN q.body = {"match"}

\* C24: a match clause splits its query text on whitespace (spaces, tabs,
\* newlines) and drops empty tokens; without tokens it compiles to the
\* always-true predicate with no parameters, otherwise to the AND of one
\* <field> LIKE ? per token in token order, the parameters being %token%.
C24_MatchTokens ==
    (Compiled /\ IsMatch(call.query) /\ Ok(result)) =>
        LET tokens == WsTokens(String(call.query.body.match.query))
        IN IF tokens = <<>>
           THEN result = Res(TRUE_SQL, <<>>)
           ELSE /\ Lex(Text(result.sql), 1)
                      = InParens(LikeChain(call.query.body.match.field, Len(tokens)))
                /\ result.params = [i \in DOMAIN tokens |-> Like(tokens[i])]

----------------------------------------------------------------------------
(* multi_match                                                            *)

IsMultiMatch(q) == Tags \cap DOMAIN q.body = {"multi_match"}
\* What a match clause on each field of the list compiles to.
MatchBlocks(m) == [i \in DOMAIN m.fields |-> _parseMatch([field |-> m.fields[i], query |-> m.query])]
\* The lexemes of the blocks separated by OR.
RECURSIVE Alternatives(_)
Alternatives(blocks) ==
    IF Len(blocks) = 1 THEN Lex(Text(blocks[1].sql), 1)
    ELSE Lex(Text(blocks[1].sql), 1) \o <<Lexeme("sym", <<"OR">>)>> \o Alternatives(Tail(blocks))

\* C25: a multi_match clause whose text or field list is empty compiles
\* to the always-false predicate without parameters; otherwise it compiles
\* to the OR, over the fields in input order, of what a match clause on
\* that field with that text compiles to: the parameters are the blocks'
\* parameters field by field, a row satisfies it exactly when it satisfies
\* one of the blocks, and when the text has tokens the fragment is the
\* parenthesised list of the blocks separated by OR.
C25_MultiMatchBlocks ==
    (Compiled /\ IsMultiMatch(call.query)) =>
        LET m == call.query.body.multi_match
            blocks == MatchBlocks(m)
        IN IF String(m.query) = <<>> \/ m.fields = <<>>
           THEN result = Res(FALSE_SQL, <<>>)
           ELSE (\A i \in DOMAIN blocks : Ok(blocks[i])) =>
                   /\ Ok(result)
                   /\ result.params = Flatten([i \in DOMAIN blocks |-> blocks[i].params])
                   /\ \A row \in Rows :
                         (Sat(result, row) = "T") <=>
                             (\E i \in DOMAIN blocks : Sat(blocks[i], row) = "T")
                   /\ blocks[1].params # <<>> =>
                         Lex(Text(result.sql), 1) = InParens(Alternatives(blocks))

\* Two tokens over two fields: four parameters, field by field, and a row
\* whose second field holds both tokens is selected.
C25_Witness ==
    /\ Compiled
    /\ call.query = MultiMatch(Str(<<"x", " ", "y">>), <<fa, fb>>)
    /\ Ok(result)
    /\ result.params = <<Like(<<"x">>), Like(<<"y">>), Like(<<"x">>), Like(<<"y">>)>>
    /\ Sat(result, Row(Num(2), Str(<<"x", "y">>))) = "T"
    /\ Sat(result, Row(Num(1), Str(<<"x">>))) = "F"

----------------------------------------------------------------------------
(* Clauses without a recognized tag                                       *)

IsUntagged(q) == Tags \cap DOMAIN q.body = {}
Children(q) ==
    q.body.bool.must \o q.body.bool.filter \o q.body.bool.should \o q.body.bool.must_not
\* The clauses without a recognized tag in a clause tree, at any depth.
RECURSIVE UntaggedIn(_)
UntaggedIn(q) ==
    IF IsUntagged(q) THEN {q}
    ELSE IF IsBool(q) THEN UNION {UntaggedIn(Children(q)[i]) : i \in DOMAIN Children(q)}
    ELSE {}
\* A clause without a recognized tag, or a bool clause without must_not
\* whose children are all such clauses.
RECURSIVE OnlyUntagged(_)
OnlyUntagged(q) ==
    \/ IsUntagged(q)
    \/ /\ IsBool(q)
       /\ q.body.bool.must_not = <<>>
       /\ \A i \in DOMAIN Children(q) : OnlyUntagged(Children(q)[i])
RowsOf(conn) == conn.data.tables[tt].rows

\* C26: a clause that carries none of the eight recognized tags compiles,
\* wherever it stands in the clause tree, to 1=1 without parameters and
\* without error; a delete whose query is made of such clauses only
\* removes every row of the table and an update with such a query sets the
\* document's values in every row, and both are acknowledged with the
\* number of rows of the table.
C26_UntaggedMatchesAll ==
    (call.op \in {"delete", "update"} /\ result # [kind |-> "pending"]) =>
        /\ \A c \in UntaggedIn(call.query) : _parseQuery(c) = Res(TRUE_SQL, <<>>)
        /\ (OnlyUntagged(call.query) /\ HasTable(pre.data, tt)) =>
              /\ result = Returned(TRUE, NoError, <<>>, RowCount(pre, tt))
              /\ call.op = "delete" => RowCount(db, tt) = 0
              /\ call.op = "update" =>
                    /\ RowCount(db, tt) = RowCount(pre, tt)
                    /\ \A i \in DOMAIN RowsOf(db) : \A k \in DOMAIN call.doc :
                          RowsOf(db)[i][call.doc[k].k] = call.doc[k].v

\* A delete through an untagged clause nested in a bool clause empties a
\* table of two rows.
C26_Witness ==
    /\ call.op = "delete"
    /\ call.query = Bool(<<>>, <<Bool(<<>>, <<>>, <<Unsupported>>, <<>>)>>, <<>>, <<>>)
    /\ HasTable(pre.data, tt)
    /\ RowCount(pre, tt) = 2
    /\ RowCount(db, tt) = 0
    /\ result = Returned(TRUE, NoError, <<>>, 2)

----------------------------------------------------------------------------
(* Join fragments                                                         *)

JoinTypes == {<<"L", "E", "F", "T">>, <<"I", "N", "N", "E", "R">>, <<"R", "I", "G", "H", "T">>,
              <<"F", "U", "L", "L">>}
SafeOperators == {<<"=">>, <<"<">>, <<">">>, <<"<", "=">>, <<">", "=">>, <<"<", ">">>,
                  <<"!", "=">>}
Symbols(text) == [i \in DOMAIN text |-> Lexeme("sym", <<text[i]>>)]
TypeOf(d) == IF d.type = <<>> THEN <<"L", "E", "F", "T">> ELSE toUpperCase(d.type)
OperatorOf(d) == IF d.op = <<>> THEN <<"=">> ELSE d.op
\* The lexemes of  <TYPE> JOIN `target` ON <left> <op> <right>.
JoinLexemes(d) ==
    Symbols(TypeOf(d)) \o <<Lexeme("sym", <<"JOIN">>), Lexeme("id", d.target),
                            Lexeme("sym", <<"ON">>)>>
        \o Lex(Text(_quoteField(d.left).sql), 1) \o Symbols(OperatorOf(d))
        \o Lex(Text(_quoteField(d.right).sql), 1)

\* C27: for every accepted list of join descriptors each emitted fragment
\* is  <TYPE> JOIN `target` ON <left> <op> <right>  where TYPE is LEFT,
\* INNER, RIGHT or FULL (LEFT when the descriptor has no type) and op is a
\* comparison operator (= when the descriptor has none); nothing else of
\* the descriptor is in the SQL text.
C27_JoinFragment ==
    (JoinLowered /\ Ok(result)) =>
        /\ Lex(Text(result.sql), 1)
              = Flatten([i \in DOMAIN call.join |-> JoinLexemes(call.join[i])])
        /\ \A i \in DOMAIN call.join :
              /\ TypeOf(call.join[i]) \in JoinTypes
              /\ OperatorOf(call.join[i]) \in SafeOperators

----------------------------------------------------------------------------
(* Join lists                                                             *)

LacksOn(d) == ~d.hasOn \/ d.left = <<>> \/ d.right = <<>>
IsInfix(part, whole) ==
    \E k \in 0..(Len(whole) - Len(part)) : SubSeq(whole, k + 1, k + Len(part)) = part
RaisedValidation(st) == ~Ok(st) /\ st.err.kind = "validation"
\* Each descriptor of the list lowered as a list of its own.
Alone(joinArr) == [i \in DOMAIN joinArr |-> _parseJoin(<<joinArr[i]>>)]

\* C28: a list holding a descriptor without on, on.left or on.right makes
\* search and aggregate raise a Validation failure; an absent or empty list
\* lowers to the empty string; the fragments of an accepted list are
\* emitted in input order, separated by one space, and stand in the search
\* and aggregate statements.
C28_JoinList ==
    JoinLowered =>
        /\ (\E i \in DOMAIN call.join : LacksOn(call.join[i])) =>
              /\ RaisedValidation(result)
              /\ RaisedValidation(alt.search)
              /\ RaisedValidation(alt.aggregate)
        /\ call.join = <<>> => result = Res(<<>>, <<>>)
        /\ (call.join # <<>> /\ \A i \in DOMAIN call.join : Ok(Alone(call.join)[i])) =>
              /\ Ok(result)
              /\ result.sql = JoinSql([i \in DOMAIN call.join |-> Alone(call.join)[i].sql],
                                     K(<<" ">>))
              /\ \A i \in DOMAIN call.join : Alone(call.join)[i].sql # <<>>
              /\ Ok(alt.search) /\ IsInfix(result.sql, alt.search.sql)
              /\ Ok(alt.aggregate) /\ IsInfix(result.sql, alt.aggregate.sql)

\* An accepted descriptor followed by one without on.right: nothing is
\* lowered, search and aggregate raise.
C28_Witness ==
    /\ JoinLowered
    /\ call.join = <<JoinDef(<<>>, tu, TRUE, fa, <<>>, fua),
                     JoinDef(<<"i", "n", "n", "e", "r">>, tu, TRUE, fa, <<"=">>, <<>>)>>
    /\ RaisedValidation(result)
    /\ RaisedValidation(alt.search)
    /\ RaisedValidation(alt.aggregate)

----------------------------------------------------------------------------
(* Sort directions                                                        *)

\* The lexemes of  ORDER BY <field> <DIR>, <field> <DIR>, ...  for the
\* directions dirs.
SortLexemes(sortArr, dirs) ==
    <<Lexeme("sym", <<"ORDER BY">>)>>
        \o Flatten([i \in DOMAIN sortArr |->
                      (IF i > 1 THEN <<Lexeme("sym", <<",">>)>> ELSE <<>>)
                      \o Lex(Text(_quoteField(sortArr[i].field).sql), 1)
                      \o <<Lexeme("sym", <<dirs[i]>>)>>])
SameLetters(a, b) == Len(a) = Len(b) /\ \A i \in DOMAIN a : UpperChar(a[i]) = UpperChar(b[i])

\* C29, as stated: an entry is emitted with DESC only when its direction
\* is the string "desc"; every other value gives ASC; the entries follow
\* ORDER BY in input order, and an empty list lowers to the empty string.
C29_SortDirections_Original ==
    (SortLowered /\ Ok(result)) =>
        IF call.sort = <<>> THEN result = Res(<<>>, <<>>)
        ELSE Lex(Text(result.sql), 1)
                = SortLexemes(call.sort,
                              [i \in DOMAIN call.sort |->
                                 IF call.sort[i].dir = <<"d", "e", "s", "c">>
                                 THEN "DESC" ELSE "ASC"])

\* C29, amended: an entry is emitted with DESC exactly when its direction,
\* letter case aside, is "desc"; every other value gives ASC; the entries
\* follow ORDER BY in input order, separated by commas, and an empty list
\* lowers to the empty string.
C29_SortDirections ==
    (SortLowered /\ Ok(result)) =>
        IF call.sort = <<>> THEN result = Res(<<>>, <<>>)
        ELSE Lex(Text(result.sql), 1)
                = SortLexemes(call.sort,
                              [i \in DOMAIN call.sort |->
                                 IF SameLetters(call.sort[i].dir, <<"d", "e", "s", "c">>)
                                 THEN "DESC" ELSE "ASC"])

\* An upper-case direction and an unknown one: the first entry descends,
\* the second ascends.
C29_Witness ==
    /\ SortLowered
    /\ call.sort = <<[field |-> fqual, dir |-> <<"D", "E", "S", "C">>],
                     [field |-> fa, dir |-> <<"u", "p">>]>>
    /\ Ok(result)
    /\ Text(result.sql) = <<"ORDER BY", " ", BQ, "t", BQ, ".", BQ, "a", BQ, " ", "DESC", ",", " ",
                            BQ, "a", BQ, " ", "ASC">>

----------------------------------------------------------------------------
(* Bulk insert                                                            *)

\* The row that holds value v in column k exactly when the item has k: v.
AsRow(item) ==
    [c \in {item[k].k : k \in DOMAIN item} |-> item[CHOOSE k \in DOMAIN item : item[k].k = c].v]
SameKeys(items) ==
    \A i \in DOMAIN items :
        {items[i][k].k : k \in DOMAIN items[i]} = {items[1][k].k : k \in DOMAIN items[1]}

\* C30: a bulk insert of items with the same set of keys, in whatever key
\* order, either appends for every item the row holding the item's values
\* in the columns named by the item's own keys, or inserts nothing.
C30_BulkInsertByKey ==
    (call.op = "insert" /\ result # [kind |-> "pending"] /\ HasTable(pre.data, tt)
        /\ call.items # <<>> /\ SameKeys(call.items)) =>
        \/ /\ result = Returned(TRUE, NoError, <<>>, Len(call.items))
           /\ RowsOf(db) = RowsOf(pre) \o [i \in DOMAIN call.items |-> AsRow(call.items[i])]
        \/ /\ result.kind = "returned" /\ ~result.ack
           /\ RowsOf(db) = RowsOf(pre)

====
